---- MODULE Spec2Model ----
(***************************************************************************)
(* Model of the intraday signal analyzer, src/.github/workflows/           *)
(* polygon_analyzer.py: signal detection on daily tables, resolution of    *)
(* each trigger date to the next trading day, and the analyses that join   *)
(* the trade dates to the intraday bars of the traded instrument.          *)
(*                                                                         *)
(* Conventions.                                                            *)
(*  - A date is a day number 1..MaxDate.  A time of day "HH:MM" is the     *)
(*    number HHMM; the labels are zero padded in the files (strftime       *)
(*    "%H:%M"), so the string order of the code is the numeric order here. *)
(*  - A daily table is the DataFrame load_daily returns: a sequence of     *)
(*    rows [Date, Close, rsi10], ascending by Date (load_daily sorts).     *)
(*    The rsi10 column is an input of this model (NaN where undefined).    *)
(*  - An intraday table is a set of bars [date, time, open, close].        *)
(*  - Python's None is a record whose flag says so (found, none).          *)
(*  - Returns are exact rationals <<numerator, denominator>>, in percent   *)
(*    as in the code.                                                      *)
(***************************************************************************)
EXTENDS Integers, Sequences, FiniteSets, TLC

VARIABLES
    pc,            \* position of the run
    signal_name,   \* the signal key given to get_signal_dates
    daily,         \* daily CSV files on disk: ticker -> file (a table, or no file)
    intraday,      \* intraday CSV files on disk: resolution -> set of bars
    signal_dates,  \* the trigger dates of the signal (local of the signal function)
    trade_dates,   \* the list get_signal_dates returns / the analyses receive
    direction,     \* "long" or "short"
    decomp,        \* what analyze_overnight_vs_intraday computed
    gaps,          \* what analyze_gap_patterns computed
    entries,       \* what analyze_5min_entry computed
    hourly,        \* what analyze_hourly_profile computed
    args,          \* the command line of main
    queue,         \* the signals main has still to pass to run_full_analysis
    outcomes,      \* for each run of main, what run_full_analysis did for each signal
    aborted,       \* an exception left main
    prices,        \* the Close column of a daily table, oldest row first
    period,        \* the period of the RSI
    window,        \* the window of the moving average
    rsi_out,       \* the column calculate_rsi_wilder returns
    sma_out,       \* the column close.rolling(window).mean() returns
    selected,      \* the rows a signal condition on the RSI selects
    last,          \* ticker -> the last values of its columns (.iloc[-1])
    indicators,    \* ticker -> what compute_indicators of the snapshot returns
    playbook,      \* signals['playbook'] of evaluate_signals
    monitor,       \* ticker -> its entry in indicators of check_signals
    today,         \* date.today() of the downloader
    api,           \* the bars the market-data service has
    request,       \* the arguments of the last download_bars call
    chunks,        \* the chunk requests of the last download_bars call
    csv            \* the intraday file of the ticker: its rows, or no file

vars == <<pc, signal_name, daily, intraday, signal_dates, trade_dates,
          direction, decomp, gaps, entries, hourly, args, queue, outcomes,
          aborted, prices, period, window, rsi_out, sma_out, selected, last, indicators,
          playbook, monitor, today, api, request, chunks, csv>>

\* The state of main's loop over the signals.
mainVars == <<args, queue, outcomes, aborted>>

\* The state of the indicator functions, of the snapshot generator and of the
\* downloader, which the analyzer does not touch.
toolVars == <<prices, period, window, rsi_out, sma_out, selected, last, indicators,
              playbook, monitor, today, api, request, chunks, csv>>

ToolsIdle ==
    /\ prices = <<>> /\ period = 0 /\ window = 0
    /\ rsi_out = <<>> /\ sma_out = <<>> /\ selected = <<>>
    /\ last = <<>> /\ indicators = <<>> /\ playbook = <<>> /\ monitor = <<>>
    /\ today = 0 /\ api = {} /\ request = <<>> /\ chunks = <<>>
    /\ csv = [exists |-> FALSE, rows |-> <<>>]

\* ------------------------------------------------------------------ bounds
\* Number of calendar days of the tables.
MaxDate == 3
\* Number of cells of the five defensive-rotation tables that differ from a
\* full calendar with neutral RSI.
MaxEdits == 3

Dates == 1..MaxDate

\* ----------------------------------------------------------------- helpers
\* An undefined indicator value (pandas NaN): every comparison with it is false.
NaN == -1

Gt(x, th) == x # NaN /\ x > th
Lt(x, th) == x # NaN /\ x < th

\* The rows of a table built from the cells given for some of the dates.
MkTable(rsi, close) ==
    LET all == [d \in Dates |->
                  [Date |-> d,
                   Close |-> IF d \in DOMAIN close THEN close[d] ELSE 1,
                   rsi10 |-> IF d \in DOMAIN rsi THEN rsi[d] ELSE NaN]]
    IN  SelectSeq(all, LAMBDA r : r.Date \in DOMAIN rsi)

\* Daily tables whose rsi10 cells are drawn from vals, on any subset of the dates.
RsiTables(vals) ==
    UNION {{MkTable(f, [d \in S |-> 1]) : f \in [S -> vals]} : S \in SUBSET Dates}

\* load_daily: the table of the ticker, or None when no file exists.
NoFile == [found |-> FALSE, df |-> <<>>]
File(df) == [found |-> TRUE, df |-> df]

load_daily(ticker) ==
    IF ticker \in DOMAIN daily THEN daily[ticker] ELSE NoFile

\* df.loc[mask, "Date"].tolist()
MaskDates(df, mask) ==
    LET ix == SelectSeq([i \in 1..Len(df) |-> i], LAMBDA i : mask[i])
    IN  [k \in 1..Len(ix) |-> df[ix[k]].Date]

\* NextTradeDates with "on or after" for "after" (a bug the claims must notice).
RECURSIVE NextTradeDates_onOrAfter(_, _)
NextTradeDates_onOrAfter(ref, sd) ==
    IF sd = <<>> THEN <<>>
    ELSE LET d == Head(sd)
             next_idx == SelectSeq(ref, LAMBDA r : r.Date >= d)
         IN  (IF Len(next_idx) > 0 THEN <<next_idx[1].Date>> ELSE <<>>)
             \o NextTradeDates_onOrAfter(ref, Tail(sd))

\* The loop that maps every signal date to the first date after it in ref.
RECURSIVE NextTradeDates(_, _)
NextTradeDates(ref, sd) ==
    IF sd = <<>> THEN <<>>
    ELSE LET d == Head(sd)
             next_idx == SelectSeq(ref, LAMBDA r : r.Date > d)
         IN  (IF Len(next_idx) > 0 THEN <<next_idx[1].Date>> ELSE <<>>)
             \o NextTradeDates(ref, Tail(sd))

\* df[["Date", "rsi10"]] with the rsi10 column renamed.
RsiColumn(df, name) ==
    [i \in 1..Len(df) |-> [Date |-> df[i].Date] @@ (name :> df[i].rsi10)]

\* left.merge(right, on="Date"), an inner join that keeps the order of left.
RECURSIVE MergeFrom(_, _, _)
MergeFrom(left, right, i) ==
    IF i > Len(left) THEN <<>>
    ELSE LET m == SelectSeq(right, LAMBDA r : r.Date = left[i].Date)
         IN  [j \in 1..Len(m) |-> left[i] @@ m[j]] \o MergeFrom(left, right, i + 1)

Merge(left, right) == MergeFrom(left, right, 1)

\* What a signal function computed: its trigger dates and the list it returns.
Ret(sd, td) == [signal_dates |-> sd, ret |-> td]

\* ------------------------------------------------------- signal definitions
_signal_qqq_overbought ==
    LET l == load_daily("QQQ") IN
    IF ~l.found THEN Ret(<<>>, <<>>)
    ELSE LET mask == [i \in 1..Len(l.df) |-> Gt(l.df[i].rsi10, 79)]
             sd == MaskDates(l.df, mask)
         IN  Ret(sd, NextTradeDates(l.df, sd))

_signal_spy_oversold ==
    LET l == load_daily("SPY") IN
    IF ~l.found THEN Ret(<<>>, <<>>)
    ELSE LET l2 == load_daily("SPY")
             df == IF l2.found /\ Len(l2.df) > Len(l.df) THEN l2.df ELSE l.df
             mask == [i \in 1..Len(df) |-> Lt(df[i].rsi10, 21)]
             sd == MaskDates(df, mask)
         IN  Ret(sd, NextTradeDates(df, sd))

_signal_fas_overbought ==
    LET l == load_daily("FAS") IN
    IF ~l.found THEN Ret(<<>>, <<>>)
    ELSE LET mask == [i \in 1..Len(l.df) |-> Gt(l.df[i].rsi10, 85)]
             sd == MaskDates(l.df, mask)
         IN  Ret(sd, NextTradeDates(l.df, sd))

_signal_spy_overbought ==
    LET l == load_daily("SPY") IN
    IF ~l.found THEN Ret(<<>>, <<>>)
    ELSE LET mask == [i \in 1..Len(l.df) |-> Gt(l.df[i].rsi10, 85)]
             sd == MaskDates(l.df, mask)
         IN  Ret(sd, NextTradeDates(l.df, sd))

\* _signal_gld_usdu_double with the two conditions joined by "or".
_signal_gld_usdu_double_or ==
    LET gld == load_daily("GLD")
        usdu == load_daily("USDU")
    IN
    IF ~gld.found \/ ~usdu.found THEN Ret(<<>>, <<>>)
    ELSE LET merged == Merge(RsiColumn(gld.df, "rsi10_gld"),
                             RsiColumn(usdu.df, "rsi10_usdu"))
             mask == [i \in 1..Len(merged) |-> Gt(merged[i].rsi10_gld, 79) \/ Lt(merged[i].rsi10_usdu, 25)]
             sd == MaskDates(merged, mask)
             spy == load_daily("SPY")
         IN  IF ~spy.found THEN Ret(sd, sd)
             ELSE Ret(sd, NextTradeDates(spy.df, sd))

_signal_gld_usdu_double ==
    LET gld == load_daily("GLD")
        usdu == load_daily("USDU")
    IN
    IF ~gld.found \/ ~usdu.found THEN Ret(<<>>, <<>>)
    ELSE LET merged == Merge(RsiColumn(gld.df, "rsi10_gld"),
                             RsiColumn(usdu.df, "rsi10_usdu"))
             mask == [i \in 1..Len(merged) |-> Gt(merged[i].rsi10_gld, 79) /\ Lt(merged[i].rsi10_usdu, 25)]
             sd == MaskDates(merged, mask)
             spy == load_daily("SPY")
         IN  IF ~spy.found THEN Ret(sd, sd)
             ELSE Ret(sd, NextTradeDates(spy.df, sd))

_signal_soxs_dollar_squeeze ==
    LET smh == load_daily("SMH")
        usdu == load_daily("USDU")
    IN
    IF ~smh.found \/ ~usdu.found THEN Ret(<<>>, <<>>)
    ELSE LET merged == Merge(RsiColumn(smh.df, "rsi10_smh"),
                             RsiColumn(usdu.df, "rsi10_usdu"))
             mask == [i \in 1..Len(merged) |-> Gt(merged[i].rsi10_smh, 79) /\ Gt(merged[i].rsi10_usdu, 70)]
             sd == MaskDates(merged, mask)
         IN  Ret(sd, NextTradeDates(smh.df, sd))

_signal_cure_oversold ==
    LET l == load_daily("CURE") IN
    IF ~l.found THEN Ret(<<>>, <<>>)
    ELSE LET mask == [i \in 1..Len(l.df) |-> Lt(l.df[i].rsi10, 21)]
             sd == MaskDates(l.df, mask)
         IN  Ret(sd, NextTradeDates(l.df, sd))

_signal_defensive_rotation ==
    LET xlp == load_daily("XLP")
        xlu == load_daily("XLU")
        xlv == load_daily("XLV")
        spy == load_daily("SPY")
        qqq == load_daily("QQQ")
    IN
    IF \E d \in {xlp, xlu, xlv, spy, qqq} : ~d.found THEN Ret(<<>>, <<>>)
    ELSE LET m1 == Merge(RsiColumn(xlp.df, "xlp_rsi"), RsiColumn(xlu.df, "xlu_rsi"))
             m2 == Merge(m1, RsiColumn(xlv.df, "xlv_rsi"))
             m3 == Merge(m2, RsiColumn(spy.df, "spy_rsi"))
             merged == Merge(m3, RsiColumn(qqq.df, "qqq_rsi"))
             mask == [i \in 1..Len(merged) |->
                   /\ (Gt(merged[i].xlp_rsi, 79) \/ Gt(merged[i].xlu_rsi, 79)
                         \/ Gt(merged[i].xlv_rsi, 79))
                   /\ (Lt(merged[i].spy_rsi, 79) /\ Lt(merged[i].qqq_rsi, 79))]
             sd == MaskDates(merged, mask)
         IN  Ret(sd, NextTradeDates(spy.df, sd))

\* The keys of the dispatch table of get_signal_dates.
SignalNames ==
    {"uvxy_qqq79", "upro_spy21", "fas_short85", "upro_short85",
     "tqqq_double", "soxs_dollar", "cure_dip", "defense_rotation"}

get_signal_dates(name) ==
    CASE name = "uvxy_qqq79" -> _signal_qqq_overbought
      [] name = "upro_spy21" -> _signal_spy_oversold
      [] name = "fas_short85" -> _signal_fas_overbought
      [] name = "upro_short85" -> _signal_spy_overbought
      [] name = "tqqq_double" -> _signal_gld_usdu_double
      [] name = "soxs_dollar" -> _signal_soxs_dollar_squeeze
      [] name = "cure_dip" -> _signal_cure_oversold
      [] name = "defense_rotation" -> _signal_defensive_rotation
      [] OTHER -> Ret(<<>>, <<>>)

\* ------------------------------------------------------ exact arithmetic
Abs(x) == IF x < 0 THEN -x ELSE x

RECURSIVE GCD(_, _)
GCD(a, b) == IF b = 0 THEN a ELSE GCD(b, a % b)

\* The rational n/d in lowest terms with a positive denominator.
Norm(n, d) ==
    LET g == GCD(Abs(n), Abs(d))
        sgn == IF d < 0 THEN -1 ELSE 1
    IN  <<(sgn * n) \div g, (sgn * d) \div g>>

Num(n) == <<n, 1>>

\* The outcome of a division by zero (inf or nan of numpy, no exception).
DivByZero == <<1, 0>>

RAdd(a, b) == Norm(a[1] * b[2] + b[1] * a[2], a[2] * b[2])
RNeg(a) == <<-a[1], a[2]>>
RSub(a, b) == RAdd(a, RNeg(b))
RMul(a, b) == Norm(a[1] * b[1], a[2] * b[2])
RDiv(a, b) == IF b[1] = 0 THEN DivByZero ELSE Norm(a[1] * b[2], a[2] * b[1])

RECURSIVE RSum(_)
RSum(seq) == IF seq = <<>> THEN Num(0) ELSE RAdd(Head(seq), RSum(Tail(seq)))

\* Series.mean / np.mean of a non-empty list.
Mean(seq) == RDiv(RSum(seq), Num(Len(seq)))

\* (a / b - 1) * 100 on two prices.
Pct(a, b) == RMul(RSub(RDiv(Num(a), Num(b)), Num(1)), Num(100))

\* a < b on two rationals with positive denominators.
RLess(a, b) == a[1] * b[2] < b[1] * a[2]

\* The elements of a list.
Range(seq) == {seq[i] : i \in 1..Len(seq)}

\* sorted(set(...)) of a list of numbers.
RECURSIVE SortedSet(_)
SortedSet(S) ==
    IF S = {} THEN <<>>
    ELSE LET m == CHOOSE x \in S : \A y \in S : x <= y
         IN  <<m>> \o SortedSet(S \ {m})

\* What an analysis returns when it returns None.
NoResult == [none |-> TRUE, rows |-> <<>>]

\* ------------------------------------------------------- intraday tables
NoBars == [found |-> FALSE, bars |-> {}]

\* load_intraday: the bars of a ticker at a resolution, or None.
load_intraday(ticker, resolution) ==
    IF ticker \in DOMAIN intraday /\ resolution \in DOMAIN intraday[ticker]
    THEN intraday[ticker][resolution]
    ELSE NoBars

\* group.sort_values("time"): the bars of one session, ascending by time.
RECURSIVE SortByTime(_)
SortByTime(B) ==
    IF B = {} THEN <<>>
    ELSE LET b == CHOOSE x \in B : \A y \in B : x.time <= y.time
         IN  <<b>> \o SortByTime(B \ {b})

\* intraday[intraday["date"].dt.date == td]
BarsOn(bars, td) == {b \in bars : b.date = td}

\* ------------------------------------- analyze_overnight_vs_intraday: rows
\* PrevClose that also accepts the daily bar dated td itself.
PrevClose_sameDay(df, td) ==
    LET prev_rows == SelectSeq(df, LAMBDA r : r.Date <= td)
    IN  IF Len(prev_rows) = 0 THEN <<>> ELSE <<prev_rows[Len(prev_rows)].Close>>

\* daily[daily["date_key"] < td].tail(1): the close of the last daily row
\* before td, as a list of one element, or the empty list.
PrevClose(df, td) ==
    LET prev_rows == SelectSeq(df, LAMBDA r : r.Date < td)
    IN  IF Len(prev_rows) = 0 THEN <<>> ELSE <<prev_rows[Len(prev_rows)].Close>>

\* Returns with the total taken as the sum of its two parts.
Returns_sum(prev_close, today_open, today_close) ==
    [overnight_pct |-> Pct(today_open, prev_close),
     intraday_pct |-> Pct(today_close, today_open),
     total_pct |-> RAdd(Pct(today_open, prev_close), Pct(today_close, today_open))]

\* The three percentages of a session.
Returns(prev_close, today_open, today_close) ==
    [overnight_pct |-> Pct(today_open, prev_close),
     intraday_pct |-> Pct(today_close, today_open),
     total_pct |-> Pct(today_close, prev_close)]

\* DirectionAdjust that leaves the total of a short signal as it is.
DirectionAdjust_partial(r, dir) ==
    IF dir = "short"
    THEN [overnight_pct |-> RNeg(r.overnight_pct),
          intraday_pct |-> RNeg(r.intraday_pct),
          total_pct |-> r.total_pct]
    ELSE r

\* if direction == "short": negate the three figures.
DirectionAdjust(r, dir) ==
    IF dir = "short"
    THEN [overnight_pct |-> RNeg(r.overnight_pct),
          intraday_pct |-> RNeg(r.intraday_pct),
          total_pct |-> RNeg(r.total_pct)]
    ELSE r

\* The body of the loop over the trade dates: the rows appended for td.
DecompRow(df, bars, td, dir) ==
    LET intraday_today == BarsOn(bars, td)
        sorted == SortByTime(intraday_today)
        prev == PrevClose(df, td)
    IN  IF intraday_today = {} THEN <<>>
        ELSE IF prev = <<>> THEN <<>>
        ELSE LET today_open == sorted[1].open
                 today_close == sorted[Len(sorted)].close
                 r == DirectionAdjust(Returns(prev[1], today_open, today_close), dir)
             IN  <<[date |-> td] @@ r>>

RECURSIVE DecompRows(_, _, _, _)
DecompRows(df, bars, tds, dir) ==
    IF tds = <<>> THEN <<>>
    ELSE DecompRow(df, bars, Head(tds), dir) \o DecompRows(df, bars, Tail(tds), dir)

\* A column of a list of rows.
Column(rows, name) == [i \in 1..Len(rows) |-> rows[i][name]]

\* Contribution without the test of the mean total.
Contribution_unguarded(avg_part, avg_total) ==
    RMul(RDiv(avg_part, avg_total), Num(100))

\* avg_part / avg_total * 100 if avg_total != 0, else 50.
Contribution(avg_part, avg_total) ==
    IF avg_total # Num(0)
    THEN RMul(RDiv(avg_part, avg_total), Num(100))
    ELSE Num(50)

\* ------------------------------ analyze_overnight_vs_intraday: holding periods
\* for hold_days in [1, 2, 3, 5]
HoldDays == <<1, 2, 3, 5>>

\* The daily terms with the overnight return always taken from the day's own open.
DayTerms_fromOpen(df, bars, idx, dir) ==
    LET id_bars == BarsOn(bars, df[idx].Date)
        sorted == SortByTime(id_bars)
        sign == IF dir = "long" THEN 1 ELSE -1
    IN  IF id_bars = {} THEN <<>>
        ELSE LET day_open == sorted[1].open
                 day_close == sorted[Len(sorted)].close
                 prev_date == IF idx > 1 THEN df[idx - 1].Date ELSE 0
                 p_close == day_open
             IN  <<[on |-> RMul(Pct(day_open, p_close), Num(sign)),
                    id |-> RMul(Pct(day_close, day_open), Num(sign))]>>

\* The terms one daily position adds to the cumulative figures: none when the
\* day has no intraday bars (continue), else its own overnight and intraday
\* return, the overnight one taken from the close of the previous daily row
\* (from the day's own open at the first row of the table).
DayTerms(df, bars, idx, dir) ==
    LET id_bars == BarsOn(bars, df[idx].Date)
        sorted == SortByTime(id_bars)
        sign == IF dir = "long" THEN 1 ELSE -1
    IN  IF id_bars = {} THEN <<>>
        ELSE LET day_open == sorted[1].open
                 day_close == sorted[Len(sorted)].close
                 prev_date == IF idx > 1 THEN df[idx - 1].Date ELSE 0
                 p_close == IF idx > 1
                            THEN SelectSeq(df, LAMBDA r : r.Date = prev_date)[1].Close
                            ELSE day_open
             IN  <<[on |-> RMul(Pct(day_open, p_close), Num(sign)),
                    id |-> RMul(Pct(day_close, day_open), Num(sign))]>>

\* for d in range(hold_days): the sums after the positions td_idx + d, d < hold,
\* stopping (break) at the end of the daily table.  terms counts the daily
\* terms added, which the code does not store.
RECURSIVE CumLoop(_, _, _, _, _, _, _)
CumLoop(df, bars, td_idx, d, hold, dir, acc) ==
    IF d = hold THEN acc
    ELSE LET idx == td_idx + d IN
         IF idx > Len(df) THEN acc
         ELSE LET t == DayTerms(df, bars, idx, dir)
                  next == IF t = <<>> THEN acc
                          ELSE [cum_on |-> RAdd(acc.cum_on, t[1].on),
                                cum_id |-> RAdd(acc.cum_id, t[1].id),
                                terms |-> acc.terms + 1]
              IN  CumLoop(df, bars, td_idx, d + 1, hold, dir, next)

\* The entries appended to on_cum, id_cum and tot_cum for the rows of the
\* single-day table, one per row whose date is a date of the daily table.
RECURSIVE HoldCum(_, _, _, _, _)
HoldCum(df, bars, rows, hold, dir) ==
    IF rows = <<>> THEN <<>>
    ELSE LET td == Head(rows).date
             daily_dates == [i \in 1..Len(df) |-> df[i].Date]
             rest == HoldCum(df, bars, Tail(rows), hold, dir)
         IN  IF td \notin Range(daily_dates) THEN rest
             ELSE LET td_idx == CHOOSE i \in 1..Len(df) :
                                  /\ daily_dates[i] = td
                                  /\ \A j \in 1..(i - 1) : daily_dates[j] # td
                      c == CumLoop(df, bars, td_idx, 0, hold, dir,
                                   [cum_on |-> Num(0), cum_id |-> Num(0), terms |-> 0])
                  IN  <<[date |-> td, on_cum |-> c.cum_on, id_cum |-> c.cum_id,
                         tot_cum |-> RAdd(c.cum_on, c.cum_id), terms |-> c.terms]>>
                      \o rest

\* if on_cum: the means of the three lists and the intraday contribution.
HoldStats(cum) ==
    IF cum = <<>> THEN <<>>
    ELSE LET avg_on_c == Mean(Column(cum, "on_cum"))
             avg_id_c == Mean(Column(cum, "id_cum"))
             avg_tot_c == Mean(Column(cum, "tot_cum"))
         IN  <<[avg_on_c |-> avg_on_c, avg_id_c |-> avg_id_c, avg_tot_c |-> avg_tot_c,
                id_c |-> Contribution(avg_id_c, avg_tot_c)]>>

\* ------------------------------------------ analyze_overnight_vs_intraday
\* The ticker the analyses load (config["trade_ticker"]).
TradeTicker == "UPRO"

analyze_overnight_vs_intraday(trade_ticker, tds, dir) ==
    LET d == load_daily(trade_ticker)
        i == load_intraday(trade_ticker, "60m")
    IN
    IF ~d.found \/ ~i.found THEN NoResult
    ELSE LET trade_dates_norm == SortedSet(Range(tds))
             rows == DecompRows(d.df, i.bars, trade_dates_norm, dir)
         IN  IF rows = <<>> THEN NoResult
             ELSE LET avg_on == Mean(Column(rows, "overnight_pct"))
                      avg_id == Mean(Column(rows, "intraday_pct"))
                      avg_total == Mean(Column(rows, "total_pct"))
                  IN  [none |-> FALSE,
                       rows |-> rows,
                       avg_on |-> avg_on,
                       avg_id |-> avg_id,
                       avg_total |-> avg_total,
                       on_contrib |-> Contribution(avg_on, avg_total),
                       id_contrib |-> Contribution(avg_id, avg_total),
                       multi |-> [k \in 1..Len(HoldDays) |->
                                    LET cum == HoldCum(d.df, i.bars, rows, HoldDays[k], dir)
                                    IN  [hold_days |-> HoldDays[k], cum |-> cum,
                                         stats |-> HoldStats(cum)]]]

\* ----------------------------------------------------- analyze_gap_patterns
\* The sign of a rational.
Sgn(a) == IF a[1] < 0 THEN -1 ELSE IF a[1] > 0 THEN 1 ELSE 0

\* A classifier that puts a zero gap in a Down bucket.
GapPattern_zeroGapDown(gap_pct, intraday_pct) ==
    IF Sgn(gap_pct) <= 0 /\ Sgn(intraday_pct) > 0 THEN "Gap Down -> Reverse Up"
    ELSE IF Sgn(gap_pct) <= 0 /\ Sgn(intraday_pct) <= 0 THEN "Gap Down -> Continue Down"
    ELSE IF Sgn(gap_pct) > 0 /\ Sgn(intraday_pct) > 0 THEN "Gap Up -> Continue Up"
    ELSE "Gap Up -> Reverse Down"

GapPattern(gap_pct, intraday_pct) ==
    IF Sgn(gap_pct) < 0 /\ Sgn(intraday_pct) > 0 THEN "Gap Down -> Reverse Up"
    ELSE IF Sgn(gap_pct) < 0 /\ Sgn(intraday_pct) <= 0 THEN "Gap Down -> Continue Down"
    ELSE IF Sgn(gap_pct) >= 0 /\ Sgn(intraday_pct) > 0 THEN "Gap Up -> Continue Up"
    ELSE "Gap Up -> Reverse Down"

\* A loop body that measures the gap up to the close of the day.
GapRow_gapToClose(df, bars, td) ==
    LET id_today == BarsOn(bars, td)
        sorted == SortByTime(id_today)
        prev == PrevClose(df, td)
    IN  IF id_today = {} THEN <<>>
        ELSE IF prev = <<>> THEN <<>>
        ELSE LET today_open == sorted[1].open
                 today_close == sorted[Len(sorted)].close
                 gap_pct == Pct(today_close, prev[1])
                 intraday_pct == Pct(today_close, today_open)
             IN  <<[date |-> td,
                    pattern |-> GapPattern(gap_pct, intraday_pct),
                    gap_pct |-> gap_pct,
                    intraday_pct |-> intraday_pct,
                    total_pct |-> Pct(today_close, prev[1])]>>

GapRow(df, bars, td) ==
    LET id_today == BarsOn(bars, td)
        sorted == SortByTime(id_today)
        prev == PrevClose(df, td)
    IN  IF id_today = {} THEN <<>>
        ELSE IF prev = <<>> THEN <<>>
        ELSE LET today_open == sorted[1].open
                 today_close == sorted[Len(sorted)].close
                 gap_pct == Pct(today_open, prev[1])
                 intraday_pct == Pct(today_close, today_open)
             IN  <<[date |-> td,
                    pattern |-> GapPattern(gap_pct, intraday_pct),
                    gap_pct |-> gap_pct,
                    intraday_pct |-> intraday_pct,
                    total_pct |-> Pct(today_close, prev[1])]>>

RECURSIVE GapRows(_, _, _)
GapRows(df, bars, tds) ==
    IF tds = <<>> THEN <<>>
    ELSE GapRow(df, bars, Head(tds)) \o GapRows(df, bars, Tail(tds))

analyze_gap_patterns(trade_ticker, tds, dir) ==
    LET d == load_daily(trade_ticker)
        i == load_intraday(trade_ticker, "60m")
    IN
    IF ~d.found \/ ~i.found THEN NoResult
    ELSE LET rows == GapRows(d.df, i.bars, SortedSet(Range(tds)))
         IN  IF rows = <<>> THEN NoResult
             ELSE [none |-> FALSE,
                   rows |-> rows,
                   best_pattern |-> IF dir = "long" THEN "Gap Down -> Reverse Up"
                                    ELSE "Gap Up -> Reverse Down"]

\* --------------------------------------------------- analyze_hourly_profile
\* .round(3): the nearest multiple of 1/1000, a tie going to the even one.
Round3(x) ==
    IF x[2] = 0 THEN x
    ELSE LET q == (1000 * x[1]) \div x[2]
             r == 1000 * x[1] - q * x[2]
             up == 2 * r > x[2] \/ (2 * r = x[2] /\ q % 2 = 1)
         IN  Norm(IF up THEN q + 1 ELSE q, 1000)

\* for _, bar in group.iterrows(): one row per bar of the session.
HourlyBarRows(group, dt, day_open, dir) ==
    [k \in 1..Len(group) |->
        LET bar == group[k]
            bar_return == Pct(bar.close, bar.open)
            cum_from_open == Pct(bar.close, day_open)
        IN  [date |-> dt,
             hour |-> bar.time,
             bar_return_pct |-> IF dir = "short" THEN RNeg(bar_return) ELSE bar_return,
             cum_from_open_pct |-> IF dir = "short" THEN RNeg(cum_from_open)
                                   ELSE cum_from_open,
             volume |-> Num(bar.volume)]]

\* A session that keeps every session, whatever its number of bars.
HourlySession_anyLength(bars, dt, dir) ==
    LET group == SortByTime(BarsOn(bars, dt))
    IN  HourlyBarRows(group, dt, group[1].open, dir)

\* The body of the loop over the sessions: a session of fewer than 4 bars is
\* skipped (continue).
HourlySession(bars, dt, dir) ==
    LET group == SortByTime(BarsOn(bars, dt))
    IN  IF Len(group) < 4 THEN <<>>
        ELSE HourlyBarRows(group, dt, group[1].open, dir)

RECURSIVE HourlyRows(_, _, _)
HourlyRows(bars, dts, dir) ==
    IF dts = <<>> THEN <<>>
    ELSE HourlySession(bars, Head(dts), dir) \o HourlyRows(bars, Tail(dts), dir)

\* df_results.groupby("hour").agg(...).round(3): one line per hour, ascending.
HourlyAgg(rows) ==
    LET hours == SortedSet({rows[i].hour : i \in 1..Len(rows)})
    IN  [k \in 1..Len(hours) |->
           LET x == SelectSeq(rows, LAMBDA r : r.hour = hours[k])
               wins == Len(SelectSeq(x, LAMBDA r : r.bar_return_pct[1] > 0))
           IN  [hour |-> hours[k],
                avg_bar_return |-> Round3(Mean(Column(x, "bar_return_pct"))),
                win_rate |-> Round3(RMul(RDiv(Num(wins), Num(Len(x))), Num(100))),
                avg_cum_return |-> Round3(Mean(Column(x, "cum_from_open_pct"))),
                avg_volume |-> Round3(Mean(Column(x, "volume"))),
                n_days |-> Cardinality({x[i].date : i \in 1..Len(x)})]]

\* hourly["avg_bar_return"].idxmax(): the first hour with the greatest mean.
BestHour(agg) ==
    LET best == CHOOSE k \in 1..Len(agg) :
                  /\ \A j \in 1..Len(agg) :
                       ~RLess(agg[k].avg_bar_return, agg[j].avg_bar_return)
                  /\ \A j \in 1..(k - 1) :
                       RLess(agg[j].avg_bar_return, agg[k].avg_bar_return)
    IN  [best_hour |-> agg[best].hour, best_return |-> agg[best].avg_bar_return]

analyze_hourly_profile(trade_ticker, tds, dir) ==
    LET i == load_intraday(trade_ticker, "60m") IN
    IF ~i.found THEN NoResult
    ELSE LET trade_dates_norm == Range(tds)
             signal_bars == {b \in i.bars : b.date \in trade_dates_norm}
             dts == SortedSet({b.date : b \in signal_bars})
             rows == HourlyRows(signal_bars, dts, dir)
         IN  IF signal_bars = {} THEN NoResult
             ELSE IF rows = <<>> THEN NoResult
             ELSE LET agg == HourlyAgg(rows)
                  IN  [none |-> FALSE,
                       rows |-> rows,
                       n_days |-> Cardinality({rows[k].date : k \in 1..Len(rows)}),
                       hourly |-> agg,
                       best |-> BestHour(agg)]

\* ------------------------------------------------------- analyze_5min_entry
\* entry_times
EntryTimes == <<930, 935, 940, 945, 950, 955, 1000, 1015, 1030, 1100>>

\* A loop that flips the sign of the return for a long signal.
RECURSIVE EntryLoop_flipLong(_, _, _, _, _)
EntryLoop_flipLong(group, dt, day_close, dir, k) ==
    IF k > Len(EntryTimes) THEN <<>>
    ELSE LET entry_time == EntryTimes[k]
             entry_bar == SubSeq(SelectSeq(group, LAMBDA b : b.time >= entry_time), 1, 1)
             rest == EntryLoop_flipLong(group, dt, day_close, dir, k + 1)
         IN  IF entry_bar = <<>> THEN rest
             ELSE LET ret == Pct(day_close, entry_bar[1].open)
                  IN  <<[date |-> dt, entry_time |-> entry_time,
                         return_pct |-> IF dir = "long" THEN RNeg(ret) ELSE ret]>>
                      \o rest

\* The rows appended for the entry times from position k on, for one session.
RECURSIVE EntryLoop(_, _, _, _, _)
EntryLoop(group, dt, day_close, dir, k) ==
    IF k > Len(EntryTimes) THEN <<>>
    ELSE LET entry_time == EntryTimes[k]
             exact == SelectSeq(group, LAMBDA b : b.time = entry_time)
             entry_bar == IF exact = <<>>
                          THEN SubSeq(SelectSeq(group, LAMBDA b : b.time >= entry_time), 1, 1)
                          ELSE exact
             rest == EntryLoop(group, dt, day_close, dir, k + 1)
         IN  IF entry_bar = <<>> THEN rest
             ELSE LET entry_price == entry_bar[1].open
                      ret == Pct(day_close, entry_price)
                  IN  <<[date |-> dt, entry_time |-> entry_time,
                         return_pct |-> IF dir = "short" THEN RNeg(ret) ELSE ret]>>
                      \o rest

\* The body of the loop over the sessions: the day's close is the close of the
\* last bar at or after 15:50, else of the last bar at or after 15:00; a
\* session with neither is skipped (continue).
EntrySession(bars, dt, dir) ==
    LET group == SortByTime(BarsOn(bars, dt))
        late1 == SelectSeq(group, LAMBDA b : b.time >= 1550)
        late_bars == IF late1 = <<>> THEN SelectSeq(group, LAMBDA b : b.time >= 1500)
                     ELSE late1
    IN  IF late_bars = <<>> THEN <<>>
        ELSE EntryLoop(group, dt, late_bars[Len(late_bars)].close, dir, 1)

\* for dt, group in signal_bars.groupby("date_key"), in ascending date order.
RECURSIVE EntryRows(_, _, _)
EntryRows(bars, dts, dir) ==
    IF dts = <<>> THEN <<>>
    ELSE EntrySession(bars, Head(dts), dir) \o EntryRows(bars, Tail(dts), dir)

\* The printed table: one line per entry time with at least 3 samples.
RECURSIVE EntryTable(_, _)
EntryTable(rows, k) ==
    IF k > Len(EntryTimes) THEN <<>>
    ELSE LET subset == SelectSeq(rows, LAMBDA r : r.entry_time = EntryTimes[k])
             rest == EntryTable(rows, k + 1)
         IN  IF Len(subset) < 3 THEN rest
             ELSE <<[entry_time |-> EntryTimes[k],
                     avg_ret |-> Mean(Column(subset, "return_pct")),
                     wins |-> Len(SelectSeq(subset, LAMBDA r : r.return_pct[1] > 0)),
                     n |-> Len(subset)]>> \o rest

\* df.groupby("entry_time")["return_pct"].mean() and its idxmax: the first
\* entry time, in ascending order, with the greatest mean.
BestEntry(rows) ==
    LET keys == SortedSet({rows[i].entry_time : i \in 1..Len(rows)})
        by_time == [k \in 1..Len(keys) |->
                      Mean(Column(SelectSeq(rows, LAMBDA r : r.entry_time = keys[k]),
                                  "return_pct"))]
        best == CHOOSE k \in 1..Len(keys) :
                  /\ \A j \in 1..Len(keys) : ~RLess(by_time[k], by_time[j])
                  /\ \A j \in 1..(k - 1) : RLess(by_time[j], by_time[k])
    IN  [entry_time |-> keys[best], avg_ret |-> by_time[best]]

analyze_5min_entry(trade_ticker, tds, dir) ==
    LET i == load_intraday(trade_ticker, "5m") IN
    IF ~i.found THEN NoResult
    ELSE LET trade_dates_norm == Range(tds)
             signal_bars == {b \in i.bars : b.date \in trade_dates_norm}
             dts == SortedSet({b.date : b \in signal_bars})
             rows == EntryRows(signal_bars, dts, dir)
         IN  IF signal_bars = {} THEN NoResult
             ELSE IF rows = <<>> THEN NoResult
             ELSE [none |-> FALSE,
                   rows |-> rows,
                   table |-> EntryTable(rows, 1),
                   best |-> BestEntry(rows)]

\* -------------------------------------------------- run_full_analysis, main
\* SIGNAL_CONFIGS: the traded ticker and the direction of a registered signal.
SIGNAL_CONFIGS ==
    [k \in SignalNames |->
       [trade_ticker |-> CASE k = "uvxy_qqq79" -> "UVXY"
                           [] k \in {"upro_spy21", "upro_short85"} -> "UPRO"
                           [] k = "fas_short85" -> "FAS"
                           [] k \in {"tqqq_double", "defense_rotation"} -> "TQQQ"
                           [] k = "soxs_dollar" -> "SOXS"
                           [] k = "cure_dip" -> "CURE",
        direction |-> IF k \in {"fas_short85", "upro_short85"} THEN "short" ELSE "long"]]

\* What a call of run_full_analysis leaves when an exception leaves it.
Raised(signal_key) ==
    [raised |-> TRUE, signal |-> signal_key, analysed |-> FALSE,
     signal_dates |-> <<>>, trade_dates |-> <<>>, date_range |-> <<>>,
     decomp |-> NoResult, hourly |-> NoResult, gaps |-> NoResult, entries |-> NoResult]

\* The rest of run_full_analysis for a list of trade dates that is not empty:
\* the range of the dates that is printed, then the four analyses on the
\* traded ticker.
RunAnalyses(signal_key, r) ==
    LET config == SIGNAL_CONFIGS[signal_key]
        trade_ticker == config.trade_ticker
        dir == config.direction
        tds == r.ret
        all == Range(tds)
        lo == CHOOSE d \in all : \A e \in all : d <= e
        hi == CHOOSE d \in all : \A e \in all : d >= e
    IN  [raised |-> FALSE,
         signal |-> signal_key,
         analysed |-> TRUE,
         signal_dates |-> r.signal_dates,
         trade_dates |-> tds,
         date_range |-> <<lo, hi>>,
         decomp |-> analyze_overnight_vs_intraday(trade_ticker, tds, dir),
         hourly |-> analyze_hourly_profile(trade_ticker, tds, dir),
         gaps |-> analyze_gap_patterns(trade_ticker, tds, dir),
         entries |-> analyze_5min_entry(trade_ticker, tds, dir)]

\* run_full_analysis without the return on an empty list of trade dates:
\* min(trade_dates) raises on the empty list.
run_full_analysis_unguarded(signal_key) ==
    IF signal_key \notin DOMAIN SIGNAL_CONFIGS THEN Raised(signal_key)
    ELSE LET r == get_signal_dates(signal_key)
         IN  IF r.ret = <<>> THEN Raised(signal_key)
             ELSE RunAnalyses(signal_key, r)

\* run_full_analysis: SIGNAL_CONFIGS[signal_key] raises for a key that is not
\* registered; with no trade date the function returns before min(trade_dates)
\* and the analyses.
run_full_analysis(signal_key) ==
    IF signal_key \notin DOMAIN SIGNAL_CONFIGS THEN Raised(signal_key)
    ELSE LET r == get_signal_dates(signal_key)
         IN  IF r.ret = <<>>
             THEN [Raised(signal_key) EXCEPT !.raised = FALSE,
                                             !.signal_dates = r.signal_dates]
             ELSE RunAnalyses(signal_key, r)

\* The signals main passes to run_full_analysis when --signal is not given:
\* the priority list, then the swing signals.
MainSchedule ==
    <<"uvxy_qqq79", "upro_spy21", "fas_short85", "upro_short85",
      "tqqq_double", "cure_dip", "defense_rotation">>

\* The signals main passes to run_full_analysis: the one named by --signal if
\* it is registered, none if it is not, else the schedule.
Schedule(a) ==
    IF a.signal = "none" THEN MainSchedule
    ELSE IF a.signal \in DOMAIN SIGNAL_CONFIGS THEN <<a.signal>>
    ELSE <<>>

\* ------------------------------------------------- the files of a signal run
\* The tickers whose daily file the signal function loads.
Uses(name) ==
    CASE name = "uvxy_qqq79" -> {"QQQ"}
      [] name = "upro_spy21" -> {"SPY"}
      [] name = "fas_short85" -> {"FAS"}
      [] name = "upro_short85" -> {"SPY"}
      [] name = "tqqq_double" -> {"GLD", "USDU", "SPY"}
      [] name = "soxs_dollar" -> {"SMH", "USDU"}
      [] name = "cure_dip" -> {"CURE"}
      [] name = "defense_rotation" -> {"XLP", "XLU", "XLV", "SPY", "QQQ"}
      [] OTHER -> {}

\* The rsi10 values the cells of a ticker's table are drawn from.
CellVals(name, t) ==
    CASE name = "tqqq_double" /\ t = "GLD" -> {NaN, 90}
      [] name = "tqqq_double" /\ t = "USDU" -> {20, 90}
      [] name = "tqqq_double" /\ t = "SPY" -> {50}
      [] name = "soxs_dollar" /\ t = "SMH" -> {20, 90}
      [] name = "soxs_dollar" /\ t = "USDU" -> {NaN, 90}
      [] OTHER -> {NaN, 20, 90}

\* Every assignment of a file (or of no file) to each ticker of S.
RECURSIVE FilesOver(_, _)
FilesOver(name, S) ==
    IF S = {} THEN {[t \in {} |-> NoFile]}
    ELSE LET t == CHOOSE x \in S : TRUE
         IN  {f @@ (t :> c) :
                f \in FilesOver(name, S \ {t}),
                c \in {NoFile} \cup {File(df) : df \in RsiTables(CellVals(name, t))}}

\* The subsets of S with at most k elements.
RECURSIVE SubsetsUpTo(_, _)
SubsetsUpTo(S, k) ==
    IF k = 0 THEN {{}}
    ELSE LET prev == SubsetsUpTo(S, k - 1)
         IN  prev \cup {p \cup {x} : p \in prev, x \in S}

\* The five tables of the defensive rotation: full calendars with neutral RSI,
\* but for at most MaxEdits edits (a row dropped, an overbought cell, no file).
DefTickers == {"XLP", "XLU", "XLV", "SPY", "QQQ"}

EditSpace ==
    [t : DefTickers, d : Dates, k : {"drop", "hot"}]
    \cup [t : DefTickers, d : {0}, k : {"nofile"}]

EditSets ==
    {E \in SubsetsUpTo(EditSpace, MaxEdits) :
        \A e1, e2 \in E : (e1.t = e2.t /\ e1.d = e2.d) => e1 = e2}

DefFile(t, E) ==
    IF [t |-> t, d |-> 0, k |-> "nofile"] \in E THEN NoFile
    ELSE LET kept == {d \in Dates : [t |-> t, d |-> d, k |-> "drop"] \notin E}
         IN  File(MkTable([d \in kept |->
                             IF [t |-> t, d |-> d, k |-> "hot"] \in E THEN 90 ELSE 50],
                          [d \in kept |-> 1]))

Files(name) ==
    IF name = "defense_rotation"
    THEN {[t \in DefTickers |-> DefFile(t, E)] : E \in EditSets}
    ELSE FilesOver(name, Uses(name))

\* ------------------------------------------------- signal detection run
SignalsInit ==
    \E name \in SignalNames \cup {"unknown"} :
      \E files \in Files(name) :
        /\ pc = "start"
        /\ signal_name = name
        /\ daily = files
        /\ intraday = [r \in {} |-> {}]
        /\ signal_dates = <<>>
        /\ trade_dates = <<>>
        /\ direction = "long"
        /\ decomp = NoResult
        /\ gaps = NoResult
        /\ entries = NoResult
        /\ hourly = NoResult
        /\ args = [signal |-> "none"]
        /\ queue = <<>>
        /\ outcomes = <<>>
        /\ aborted = FALSE
        /\ ToolsIdle

GetSignalDates ==
    /\ pc = "start"
    /\ LET r == get_signal_dates(signal_name)
       IN  /\ signal_dates' = r.signal_dates
           /\ trade_dates' = r.ret
    /\ pc' = "dates"
    /\ UNCHANGED <<signal_name, daily, intraday, direction, decomp, gaps, entries,
                   hourly, mainVars, toolVars>>

SignalsNext == GetSignalDates

SpecSignals == SignalsInit /\ [][SignalsNext]_vars

\* ------------------------------------------------ signal detection: claims
Found(t) == t \in DOMAIN daily /\ daily[t].found

DatesOf(t) == {daily[t].df[i].Date : i \in 1..Len(daily[t].df)}

RsiOn(t, d) ==
    LET df == daily[t].df
    IN  df[CHOOSE i \in 1..Len(df) : df[i].Date = d].rsi10

Above(t, d, th) == RsiOn(t, d) # NaN /\ RsiOn(t, d) > th
Below(t, d, th) == RsiOn(t, d) # NaN /\ RsiOn(t, d) < th

Ascending(seq) == \A i, j \in 1..Len(seq) : i < j => seq[i] < seq[j]

\* The ticker whose dates are the trading calendar of the signal.
RefTicker(name) ==
    CASE name = "uvxy_qqq79" -> "QQQ"
      [] name = "upro_spy21" -> "SPY"
      [] name = "fas_short85" -> "FAS"
      [] name = "upro_short85" -> "SPY"
      [] name = "tqqq_double" -> "SPY"
      [] name = "soxs_dollar" -> "SMH"
      [] name = "cure_dip" -> "CURE"
      [] name = "defense_rotation" -> "SPY"

\* The tickers the predicate of a several-ticker signal reads.
PredTickers(name) ==
    CASE name = "tqqq_double" -> {"GLD", "USDU"}
      [] name = "soxs_dollar" -> {"SMH", "USDU"}
      [] name = "defense_rotation" -> {"XLP", "XLU", "XLV", "SPY", "QQQ"}

MultiSignals == {"tqqq_double", "soxs_dollar", "defense_rotation"}

\* The predicate of a several-ticker signal on a date every series has.
PredHolds(name, d) ==
    CASE name = "tqqq_double" -> Above("GLD", d, 79) /\ Below("USDU", d, 25)
      [] name = "soxs_dollar" -> Above("SMH", d, 79) /\ Above("USDU", d, 70)
      [] name = "defense_rotation" ->
            /\ Above("XLP", d, 79) \/ Above("XLU", d, 79) \/ Above("XLV", d, 79)
            /\ Below("SPY", d, 79) /\ Below("QQQ", d, 79)

\* The trade dates of the trigger dates sd on the calendar R, by the definition
\* of a trade date: the least date of R after the trigger, none when there is none.
RECURSIVE ExpectedTradeDates(_, _)
ExpectedTradeDates(sd, R) ==
    IF sd = <<>> THEN <<>>
    ELSE LET later == {d \in R : d > Head(sd)}
         IN  (IF later = {} THEN <<>>
              ELSE <<CHOOSE m \in later : \A x \in later : m <= x>>)
             \o ExpectedTradeDates(Tail(sd), R)

AllFilesFound == \A t \in Uses(signal_name) : Found(t)

\* C1: every trigger date t is mapped to the smallest date of the reference
\* series R that is strictly greater than t, and a trigger with no later date
\* in R (the last available day) yields no trade date, so nothing downstream
\* is computed for it: the returned list is exactly the list of those dates.
C1_TradeDateIsNextReferenceDate ==
    (pc = "dates" /\ signal_name \in SignalNames /\ AllFilesFound)
    => trade_dates = ExpectedTradeDates(signal_dates, DatesOf(RefTicker(signal_name)))

\* A run of the double signal with two triggers: the first is resolved across a
\* gap of the SPY calendar, the second is the last available day and is dropped.
C1_Witness ==
    /\ pc = "dates" /\ signal_name = "tqqq_double" /\ AllFilesFound
    /\ Len(signal_dates) = 2 /\ Len(trade_dates) = 1
    /\ trade_dates[1] > signal_dates[1] + 1
    /\ \A d \in DatesOf("SPY") : d <= signal_dates[2]

\* C2: if the daily series of any ticker the signal uses is absent,
\* get_signal_dates returns an empty list.
C2_AbsentSeriesGivesEmpty ==
    (pc = "dates" /\ ~AllFilesFound) => trade_dates = <<>>

\* C3: for a signal over several tickers the trigger dates are exactly the
\* dates present in every referenced series on which the predicate holds, in
\* ascending order.
C3_TriggersAreInnerJoin ==
    (pc = "dates" /\ signal_name \in MultiSignals
        /\ \A t \in PredTickers(signal_name) : Found(t))
    => /\ Ascending(signal_dates)
       /\ Range(signal_dates) =
            {d \in Dates : /\ \A t \in PredTickers(signal_name) : d \in DatesOf(t)
                           /\ PredHolds(signal_name, d)}

\* The double signal triggers twice, and a date on which GLD is overbought is
\* no trigger because USDU has no bar on it.
C3_Witness ==
    /\ pc = "dates" /\ signal_name = "tqqq_double"
    /\ Found("GLD") /\ Found("USDU")
    /\ Len(signal_dates) = 2
    /\ \E d \in DatesOf("GLD") \ DatesOf("USDU") : Above("GLD", d, 79)

\* ------------------------------------------- the 60-minute analyses of a run
\* The prices of the tables.
Prices == {1, 2}

\* The time labels of the 60-minute bars of a session.
Times60 == <<1000, 1100, 1200, 1300, 1400, 1500>>

\* Number of 60-minute bars of a session.
BarsPerSession == 2

\* Daily tables of the traded ticker: any dates, any closes.
CloseTables ==
    UNION {{MkTable([d \in S |-> NaN], c) : c \in [S -> Prices]} : S \in SUBSET Dates}

\* The session of a date: no bar (shape <<0, 0>>), or BarsPerSession bars that
\* open at o and close at c, the prices in between at 3.
MkSession(d, shape) ==
    IF shape = <<0, 0>> THEN {}
    ELSE {[date |-> d, time |-> Times60[k],
           open |-> IF k = 1 THEN shape[1] ELSE 3,
           close |-> IF k = BarsPerSession THEN shape[2] ELSE 3] :
             k \in 1..BarsPerSession}

Tables60 ==
    {UNION {MkSession(d, sh[d]) : d \in Dates} :
        sh \in [Dates -> {<<0, 0>>} \cup (Prices \X Prices)]}

Init ==
    /\ pc = "dates"
    /\ signal_name = "unknown"
    /\ signal_dates = <<>>
    /\ \E S \in SUBSET Dates : trade_dates = SortedSet(S)
    /\ direction \in {"long", "short"}
    /\ \E f \in {NoFile} \cup {File(t) : t \in CloseTables} :
         daily = (TradeTicker :> f)
    /\ \E f \in {NoBars} \cup {[found |-> TRUE, bars |-> b] : b \in Tables60} :
         intraday = (TradeTicker :> ("60m" :> f))
    /\ decomp = NoResult
    /\ gaps = NoResult
    /\ entries = NoResult
    /\ hourly = NoResult
    /\ args = [signal |-> "none"]
    /\ queue = <<>>
    /\ outcomes = <<>>
    /\ aborted = FALSE
    /\ ToolsIdle

AnalyzeOvernight ==
    /\ pc = "dates"
    /\ decomp' = analyze_overnight_vs_intraday(TradeTicker, trade_dates, direction)
    /\ pc' = "overnight"
    /\ UNCHANGED <<signal_name, daily, intraday, signal_dates, trade_dates,
                   direction, gaps, entries, hourly, mainVars, toolVars>>

AnalyzeGaps ==
    /\ pc = "overnight"
    /\ gaps' = analyze_gap_patterns(TradeTicker, trade_dates, direction)
    /\ pc' = "gaps"
    /\ UNCHANGED <<signal_name, daily, intraday, signal_dates, trade_dates,
                   direction, decomp, entries, hourly, mainVars, toolVars>>

Next == AnalyzeOvernight \/ AnalyzeGaps

Spec == Init /\ [][Next]_vars

\* --------------------------------------------- the 60-minute analyses: claims
\* if len(group) < 4 (the minimum bar count of a usable session).
MinBars == 4

Bars60 == intraday[TradeTicker]["60m"].bars
DailyDf == daily[TradeTicker].df

\* The daily rows dated before d, and the close of the latest of them.
RowsBefore(d) == {i \in 1..Len(DailyDf) : DailyDf[i].Date < d}

LatestCloseBefore(d) ==
    LET i == CHOOSE x \in RowsBefore(d) :
                \A y \in RowsBefore(d) : DailyDf[y].Date <= DailyDf[x].Date
    IN  DailyDf[i].Close

\* The open of the bar with the smallest time of day, the close of the bar
\* with the greatest, of the 60-minute session of d.
EarliestOpen(d) ==
    (CHOOSE b \in BarsOn(Bars60, d) : \A x \in BarsOn(Bars60, d) : b.time <= x.time).open

LatestClose(d) ==
    (CHOOSE b \in BarsOn(Bars60, d) : \A x \in BarsOn(Bars60, d) : b.time >= x.time).close

Signed(x) == IF direction = "short" THEN RNeg(x) ELSE x

\* |a - b| < 1e-9
WithinTolerance(a, b) ==
    LET diff == RSub(a, b)
    IN  diff[1] = 0 \/ (diff[2] - 1) \div Abs(diff[1]) >= 1000000000

\* (1 + on/100)(1 + id/100) - 1, as a percentage.
Compound(on, id) ==
    RMul(RSub(RMul(RAdd(Num(1), RDiv(on, Num(100))),
                   RAdd(Num(1), RDiv(id, Num(100)))),
              Num(1)),
         Num(100))

DecompRowsOf == IF decomp.none THEN <<>> ELSE decomp.rows
GapRowsOf == IF gaps.none THEN <<>> ELSE gaps.rows

\* C4: a trade date whose intraday session has fewer than the minimum bar
\* count (4) contributes no row to the return decomposition or to the gap
\* classification.
C4_ShortSessionsSkipped ==
    /\ \A i \in 1..Len(DecompRowsOf) :
         Cardinality(BarsOn(Bars60, DecompRowsOf[i].date)) >= MinBars
    /\ \A i \in 1..Len(GapRowsOf) :
         Cardinality(BarsOn(Bars60, GapRowsOf[i].date)) >= MinBars

\* C6: for every trade date d with a Decomposition or a GapPattern there is a
\* daily bar before d, and the overnight figure is taken against the close of
\* the daily bar with the greatest date strictly less than d.
C6_PrevCloseIsLatestDailyCloseBefore ==
    /\ \A i \in 1..Len(DecompRowsOf) :
         LET r == DecompRowsOf[i] IN
         /\ RowsBefore(r.date) # {}
         /\ r.overnight_pct = Signed(Pct(EarliestOpen(r.date), LatestCloseBefore(r.date)))
         /\ r.total_pct = Signed(Pct(LatestClose(r.date), LatestCloseBefore(r.date)))
    /\ \A i \in 1..Len(GapRowsOf) :
         LET r == GapRowsOf[i] IN
         /\ RowsBefore(r.date) # {}
         /\ r.gap_pct = Pct(EarliestOpen(r.date), LatestCloseBefore(r.date))
         /\ r.total_pct = Pct(LatestClose(r.date), LatestCloseBefore(r.date))

\* A decomposition and a gap row of a date that has two earlier daily bars with
\* different closes and a daily bar of its own with yet another close than the
\* latest earlier one.
C6_Witness ==
    /\ pc = "gaps"
    /\ \E i \in 1..Len(DecompRowsOf) : \E j \in 1..Len(GapRowsOf) :
         LET d == DecompRowsOf[i].date IN
         /\ GapRowsOf[j].date = d
         /\ Cardinality(RowsBefore(d)) >= 2
         /\ \E x, y \in RowsBefore(d) : DailyDf[x].Close # DailyDf[y].Close
         /\ \E k \in 1..Len(DailyDf) :
              DailyDf[k].Date = d /\ DailyDf[k].Close # LatestCloseBefore(d)

\* C7 as stated: every Decomposition, long or short, satisfies
\* totalReturn = (1 + overnightReturn)(1 + intradayReturn) - 1 within 1e-9 on
\* the reported figures.
C7_CompoundingOnReportedFigures ==
    \A i \in 1..Len(DecompRowsOf) :
      LET r == DecompRowsOf[i]
      IN  WithinTolerance(r.total_pct, Compound(r.overnight_pct, r.intraday_pct))

\* C7 amended: a long Decomposition satisfies the compounding identity on its
\* reported figures; a short Decomposition satisfies it on the negations of its
\* reported figures (the returns of the instrument).
C7_CompoundingOnInstrumentReturns ==
    \A i \in 1..Len(DecompRowsOf) :
      LET r == DecompRowsOf[i]
      IN  WithinTolerance(Signed(r.total_pct),
                          Compound(Signed(r.overnight_pct), Signed(r.intraday_pct)))

\* A short Decomposition whose overnight and intraday returns are both not 0.
C7_Witness ==
    /\ pc = "overnight" /\ direction = "short"
    /\ \E i \in 1..Len(DecompRowsOf) :
         DecompRowsOf[i].overnight_pct # Num(0) /\ DecompRowsOf[i].intraday_pct # Num(0)

\* C8: on the same tables and trade dates the Decomposition for the other
\* direction has the same dates and the three figures negated.
C8_ShortIsNegatedLong ==
    pc # "dates" =>
      LET other == analyze_overnight_vs_intraday(
                       TradeTicker, trade_dates, IF direction = "short" THEN "long" ELSE "short")
      IN  /\ other.none = decomp.none
          /\ Len(other.rows) = Len(decomp.rows)
          /\ \A i \in 1..Len(decomp.rows) :
               /\ other.rows[i].date = decomp.rows[i].date
               /\ other.rows[i].overnight_pct = RNeg(decomp.rows[i].overnight_pct)
               /\ other.rows[i].intraday_pct = RNeg(decomp.rows[i].intraday_pct)
               /\ other.rows[i].total_pct = RNeg(decomp.rows[i].total_pct)

\* A short Decomposition of two dates with a total that is not 0.
C8_Witness ==
    /\ pc = "overnight" /\ direction = "short"
    /\ Len(DecompRowsOf) >= 2
    /\ \E i \in 1..Len(DecompRowsOf) : DecompRowsOf[i].total_pct # Num(0)

\* The share of a component, by the definition of the contribution.
ExpectedContribution(part, total) ==
    LET mp == RDiv(RSum(part), Num(Len(part)))
        mt == RDiv(RSum(total), Num(Len(total)))
    IN  IF mt[1] = 0 THEN Num(50) ELSE RMul(RDiv(mp, mt), Num(100))

\* C9: a contribution is mean(component) / mean(total) * 100 when mean(total)
\* is not 0 and exactly 50 when it is 0, and no division by zero occurs, in the
\* single-day aggregate and in every holding-period aggregate.
C9_ContributionGuarded ==
    ~decomp.none =>
      /\ decomp.on_contrib # DivByZero /\ decomp.id_contrib # DivByZero
      /\ decomp.on_contrib =
           ExpectedContribution(Column(decomp.rows, "overnight_pct"),
                                Column(decomp.rows, "total_pct"))
      /\ decomp.id_contrib =
           ExpectedContribution(Column(decomp.rows, "intraday_pct"),
                                Column(decomp.rows, "total_pct"))
      /\ \A k \in 1..Len(HoldDays) :
           LET m == decomp.multi[k] IN
           m.cum # <<>> =>
             /\ Len(m.stats) = 1
             /\ m.stats[1].id_c # DivByZero
             /\ m.stats[1].id_c =
                  ExpectedContribution(Column(m.cum, "id_cum"), Column(m.cum, "tot_cum"))

\* Aggregates with a mean total of 0 and a mean component that is not 0, in
\* the single-day and in a holding-period aggregate.
C9_Witness ==
    /\ ~decomp.none
    /\ decomp.avg_total = Num(0) /\ decomp.avg_on # Num(0)
    /\ decomp.on_contrib = Num(50) /\ decomp.id_contrib = Num(50)
    /\ \E k \in 1..Len(HoldDays) :
         /\ decomp.multi[k].cum # <<>>
         /\ decomp.multi[k].stats[1].avg_tot_c = Num(0)
         /\ decomp.multi[k].stats[1].avg_id_c # Num(0)

\* The position of date d in the daily table.
DailyIndex(d) == CHOOSE i \in 1..Len(DailyDf) : DailyDf[i].Date = d

\* C10: a trade date with fewer than H daily positions from its index to the
\* end of the daily table has no entry in the H-day aggregate.
C10_PartialSumsExcluded ==
    ~decomp.none =>
      \A k \in 1..Len(HoldDays) :
        \A i \in 1..Len(decomp.multi[k].cum) :
          DailyIndex(decomp.multi[k].cum[i].date) + HoldDays[k] - 1 <= Len(DailyDf)

\* ------------------------------------------------ the 5-minute analysis of a run
\* The time labels of the bars of a 5-minute session: a morning without an
\* afternoon, a day with its last bars, a day that ends at 15:00.
TimeSets5 ==
    {<<930, 935, 940, 945>>, <<930, 935, 1500, 1555>>, <<935, 945, 1030, 1500>>}

\* A session whose prices fall (5, 4, ..) or rise (1, 2, ..) from bar to bar.
MkSession5(d, times, profile) ==
    {[date |-> d, time |-> times[k],
      open |-> IF profile = "fall" THEN 6 - k ELSE k,
      close |-> IF profile = "fall" THEN 5 - k ELSE k + 1] : k \in 1..Len(times)}

Sessions5(d) ==
    {{}} \cup {MkSession5(d, t, p) : t \in TimeSets5, p \in {"fall", "rise"}}

RECURSIVE Tables5(_)
Tables5(d) ==
    IF d = 0 THEN {{}}
    ELSE {t \cup ses : t \in Tables5(d - 1), ses \in Sessions5(d)}

EntryInit ==
    /\ pc = "gaps"
    /\ signal_name = "unknown"
    /\ signal_dates = <<>>
    /\ \E S \in SUBSET Dates : trade_dates = SortedSet(S)
    /\ direction \in {"long", "short"}
    /\ daily = (TradeTicker :> NoFile)
    /\ \E f \in {NoBars} \cup {[found |-> TRUE, bars |-> b] : b \in Tables5(MaxDate)} :
         intraday = (TradeTicker :> ("5m" :> f))
    /\ decomp = NoResult
    /\ gaps = NoResult
    /\ entries = NoResult
    /\ hourly = NoResult
    /\ args = [signal |-> "none"]
    /\ queue = <<>>
    /\ outcomes = <<>>
    /\ aborted = FALSE
    /\ ToolsIdle

Analyze5minEntry ==
    /\ pc = "gaps"
    /\ entries' = analyze_5min_entry(TradeTicker, trade_dates, direction)
    /\ pc' = "done"
    /\ UNCHANGED <<signal_name, daily, intraday, signal_dates, trade_dates,
                   direction, decomp, gaps, hourly, mainVars, toolVars>>

EntryNext == Analyze5minEntry

SpecEntry == EntryInit /\ [][EntryNext]_vars

\* ------------------------------------------------ the 5-minute analysis: claims
Bars5 == intraday[TradeTicker]["5m"].bars

EntryRowsOf == IF entries.none THEN <<>> ELSE entries.rows

\* The close of the final bar of the 5-minute session of d, and the open of
\* its first bar at or after time c.
FinalClose5(d) ==
    (CHOOSE b \in BarsOn(Bars5, d) : \A x \in BarsOn(Bars5, d) : b.time >= x.time).close

FirstOpenFrom5(d, c) ==
    LET from == {b \in BarsOn(Bars5, d) : b.time >= c}
    IN  (CHOOSE b \in from : \A x \in from : b.time <= x.time).open

\* C5: every usable session has a sessionClose, the close of its last bar at or
\* after the late-session cutoff, or of its final bar when no bar is at or
\* after the cutoff (either way the close of the final bar), and the date is
\* not dropped: every trade date with a usable 5-minute session has an entry
\* sample at the first entry time, whose exit price is that close.
C5_SessionCloseFallsBackToFinalBar ==
    (pc = "done" /\ intraday[TradeTicker]["5m"].found) =>
      \A d \in Range(trade_dates) :
        Cardinality(BarsOn(Bars5, d)) >= MinBars =>
          \E i \in 1..Len(EntryRowsOf) :
            /\ EntryRowsOf[i].date = d
            /\ EntryRowsOf[i].entry_time = EntryTimes[1]
            /\ EntryRowsOf[i].return_pct =
                 Signed(Pct(FinalClose5(d), FirstOpenFrom5(d, EntryTimes[1])))

\* --------------------------------------------- the holding periods: claims
\* C11: every date in the H-day aggregate that has H daily positions from its
\* own index to the end of the daily table carries the sum of exactly H daily
\* terms, one for each of these positions.
C11_ExactlyHTerms ==
    ~decomp.none =>
      \A k \in 1..Len(HoldDays) :
        \A i \in 1..Len(decomp.multi[k].cum) :
          LET c == decomp.multi[k].cum[i] IN
          DailyIndex(c.date) + HoldDays[k] - 1 <= Len(DailyDf) =>
            c.terms = HoldDays[k]

\* ------------------------------------------------ the gap patterns: claims
Zero == Num(0)

\* C12: every classified trade date has exactly one row, and the pattern of a
\* row is the one of the four that the signs of its gap and intraday return
\* select: a negative gap is Down, a zero or positive gap is Up, a positive
\* intraday return is Reverse Up or Continue Up, a zero or negative one is not.
C12_GapClassifierTotal ==
    \A i \in 1..Len(GapRowsOf) :
      LET r == GapRowsOf[i]
          g == r.gap_pct
          n == r.intraday_pct
      IN  /\ \A j \in 1..Len(GapRowsOf) : GapRowsOf[j].date = r.date => j = i
          /\ (RLess(g, Zero) /\ RLess(Zero, n)) => r.pattern = "Gap Down -> Reverse Up"
          /\ (RLess(g, Zero) /\ ~RLess(Zero, n)) => r.pattern = "Gap Down -> Continue Down"
          /\ (~RLess(g, Zero) /\ RLess(Zero, n)) => r.pattern = "Gap Up -> Continue Up"
          /\ (~RLess(g, Zero) /\ ~RLess(Zero, n)) => r.pattern = "Gap Up -> Reverse Down"

\* A zero gap followed by a falling session, next to a row of another pattern.
C12_Witness ==
    /\ \E i \in 1..Len(GapRowsOf) :
         /\ GapRowsOf[i].gap_pct = Zero
         /\ RLess(GapRowsOf[i].intraday_pct, Zero)
         /\ GapRowsOf[i].pattern = "Gap Up -> Reverse Down"
    /\ \E i \in 1..Len(GapRowsOf) : GapRowsOf[i].pattern = "Gap Down -> Reverse Up"

\* The decomposition row and the gap row of one trade date.
DecompRowOn(d) == SelectSeq(DecompRowsOf, LAMBDA r : r.date = d)
GapRowOn(d) == SelectSeq(GapRowsOf, LAMBDA r : r.date = d)

\* C13 as stated: for both directions the classified pair is the reported
\* overnight and intraday return of the same trade date.
C13_ClassifiedPairIsReportedPair ==
    pc = "gaps" =>
      \A d \in Dates :
        (DecompRowOn(d) # <<>> /\ GapRowOn(d) # <<>>) =>
          /\ GapRowOn(d)[1].gap_pct = DecompRowOn(d)[1].overnight_pct
          /\ GapRowOn(d)[1].intraday_pct = DecompRowOn(d)[1].intraday_pct

\* C13: the same trade dates have a decomposition row and a gap row; the
\* classified pair is the reported pair for a long signal and its negation,
\* the returns of the instrument itself, for a short signal.
C13_ClassifiedPairIsInstrumentPair ==
    pc = "gaps" =>
      \A d \in Dates :
        /\ (DecompRowOn(d) # <<>>) <=> (GapRowOn(d) # <<>>)
        /\ GapRowOn(d) # <<>> =>
             /\ Signed(GapRowOn(d)[1].gap_pct) = DecompRowOn(d)[1].overnight_pct
             /\ Signed(GapRowOn(d)[1].intraday_pct) = DecompRowOn(d)[1].intraday_pct

C13_Witness ==
    /\ pc = "gaps"
    /\ direction = "short"
    /\ \E d \in Dates :
         /\ GapRowOn(d) # <<>>
         /\ DecompRowOn(d) # <<>>
         /\ GapRowOn(d)[1].pattern = "Gap Up -> Reverse Down"
         /\ RLess(DecompRowOn(d)[1].overnight_pct, Zero)
         /\ RLess(Zero, DecompRowOn(d)[1].intraday_pct)

\* ------------------------------------------------ the entry timing: claims
\* if len(subset) < 3 (the minimum sample size of a reported entry time).
MinSamples == 3

\* The samples of trade date d at candidate time c.
SamplesAt(d, c) ==
    SelectSeq(EntryRowsOf, LAMBDA r : r.date = d /\ r.entry_time = c)

\* The samples of all dates at candidate time c, and their mean.
SamplesOf(c) == SelectSeq(EntryRowsOf, LAMBDA r : r.entry_time = c)
MeanOf(c) == Mean(Column(SamplesOf(c), "return_pct"))

\* C14: for every trade date with a usable session and every candidate time
\* c, a candidate with a bar at or after c has one sample, the return from the
\* open of the first such bar to the close of the session as the aligner
\* defines it (the close of the final bar), negated for a short signal; a
\* candidate with no bar at or after c has no sample.
C14_EntrySamples ==
    (pc = "done" /\ intraday[TradeTicker]["5m"].found) =>
      \A d \in Range(trade_dates) :
        Cardinality(BarsOn(Bars5, d)) >= MinBars =>
          \A k \in 1..Len(EntryTimes) :
            LET c == EntryTimes[k] IN
            IF \E b \in BarsOn(Bars5, d) : b.time >= c
            THEN /\ Len(SamplesAt(d, c)) = 1
                 /\ SamplesAt(d, c)[1].return_pct =
                      Signed(Pct(FinalClose5(d), FirstOpenFrom5(d, c)))
            ELSE SamplesAt(d, c) = <<>>

\* C15: the entry time reported as optimal has at least MinSamples samples and
\* the greatest mean among the entry times that have; every line of the table
\* has at least MinSamples samples.
C15_OptimumMeetsMinimumSample ==
    ~entries.none =>
      /\ \A i \in 1..Len(entries.table) : entries.table[i].n >= MinSamples
      /\ Len(SamplesOf(entries.best.entry_time)) >= MinSamples
      /\ \A k \in 1..Len(EntryTimes) :
           Len(SamplesOf(EntryTimes[k])) >= MinSamples =>
             ~RLess(entries.best.avg_ret, MeanOf(EntryTimes[k]))

\* The 5-minute session of d falls from its open to its close: every bar
\* closes below its open and no bar opens above the close of the bar before.
Falling5(d) ==
    LET g == SortByTime(BarsOn(Bars5, d)) IN
    /\ \A k \in 1..Len(g) : g[k].close < g[k].open
    /\ \A k \in 1..(Len(g) - 1) : g[k + 1].open <= g[k].close

AllFalling ==
    /\ pc = "done"
    /\ ~entries.none
    /\ \A d \in Range(trade_dates) : Falling5(d)

\* C16 as stated: for a long signal on falling sessions the earliest entry time
\* has a mean return at least that of every later entry time.
C16_EarliestIsBestWhenFalling ==
    (AllFalling /\ direction = "long") =>
      \A k \in 2..Len(EntryTimes) :
        ~RLess(MeanOf(EntryTimes[1]), MeanOf(EntryTimes[k]))

\* C16: on falling sessions an earlier entry time never has a better mean
\* return than a later one for a long signal (the earliest is the worst), and
\* never a worse one for a short signal (the earliest is the best).
C16_EarliestIsWorstWhenFalling ==
    AllFalling =>
      \A j, k \in 1..Len(EntryTimes) :
        j < k => IF direction = "long"
                 THEN ~RLess(MeanOf(EntryTimes[k]), MeanOf(EntryTimes[j]))
                 ELSE ~RLess(MeanOf(EntryTimes[j]), MeanOf(EntryTimes[k]))

C16_Witness ==
    /\ AllFalling
    /\ direction = "long"
    /\ Len(trade_dates) >= 2
    /\ RLess(MeanOf(EntryTimes[1]), MeanOf(EntryTimes[2]))
    /\ RLess(MeanOf(EntryTimes[2]), MeanOf(EntryTimes[Len(EntryTimes)]))

\* --------------------------------------------- the hourly profile of a run
\* The time labels of a 60-minute session of three bars (too short to be
\* profiled) and of two sessions of four bars.
ShortTimesH == <<1000, 1100, 1200>>
TimeSetsH == {<<1000, 1100, 1200, 1300>>, <<1100, 1200, 1300, 1400>>}

\* A session whose prices fall (5, 4, ..) or rise (1, 2, ..) from bar to bar,
\* with a volume that grows with the bars.
MkSessionH(d, times, profile) ==
    {[date |-> d, time |-> times[k],
      open |-> IF profile = "fall" THEN 6 - k ELSE k,
      close |-> IF profile = "fall" THEN 5 - k ELSE k + 1,
      volume |-> k + d] : k \in 1..Len(times)}

SessionsH(d) ==
    {{}, MkSessionH(d, ShortTimesH, "rise")}
      \cup {MkSessionH(d, t, p) : t \in TimeSetsH, p \in {"fall", "rise"}}

RECURSIVE TablesH(_)
TablesH(d) ==
    IF d = 0 THEN {{}}
    ELSE {t \cup ses : t \in TablesH(d - 1), ses \in SessionsH(d)}

HourlyInit ==
    /\ pc = "overnight"
    /\ signal_name = "unknown"
    /\ signal_dates = <<>>
    /\ \E S \in SUBSET Dates : trade_dates = SortedSet(S)
    /\ direction \in {"long", "short"}
    /\ daily = (TradeTicker :> NoFile)
    /\ \E f \in {NoBars} \cup {[found |-> TRUE, bars |-> b] : b \in TablesH(MaxDate)} :
         intraday = (TradeTicker :> ("60m" :> f))
    /\ decomp = NoResult
    /\ gaps = NoResult
    /\ entries = NoResult
    /\ hourly = NoResult
    /\ args = [signal |-> "none"]
    /\ queue = <<>>
    /\ outcomes = <<>>
    /\ aborted = FALSE
    /\ ToolsIdle

AnalyzeHourly ==
    /\ pc = "overnight"
    /\ hourly' = analyze_hourly_profile(TradeTicker, trade_dates, direction)
    /\ pc' = "hourly"
    /\ UNCHANGED <<signal_name, daily, intraday, signal_dates, trade_dates,
                   direction, decomp, gaps, entries, mainVars, toolVars>>

HourlyNext == AnalyzeHourly

SpecHourly == HourlyInit /\ [][HourlyNext]_vars

\* ------------------------------------------------ the hourly profile: claims
HourlyAggOf == IF hourly.none THEN <<>> ELSE hourly.hourly

\* The bars labelled h in the usable sessions of the trade dates, one for each
\* date in ascending order, each with the open of the first bar of its session.
BucketBars(h) ==
    LET ds == SortedSet({d \in Range(trade_dates) :
                           /\ Cardinality(BarsOn(Bars60, d)) >= MinBars
                           /\ \E b \in BarsOn(Bars60, d) : b.time = h})
    IN  [k \in 1..Len(ds) |->
           LET b == CHOOSE b \in BarsOn(Bars60, ds[k]) : b.time = h
           IN  [date |-> ds[k], open |-> b.open, close |-> b.close,
                first_open |-> EarliestOpen(ds[k])]]

\* The time labels of the bars of the table.
Labels == {b.time : b \in Bars60}

\* C17: the profile has one line for each label carried by a bar of a usable
\* trade-date session and no other; its figures, reported to three decimals,
\* are the mean of the direction-adjusted close / open - 1 of the bars of the
\* bucket, the share of these returns above 0, the mean of the
\* direction-adjusted close / first-bar open - 1, and the number of dates.
C17_BucketStatistics ==
    (pc = "hourly" /\ intraday[TradeTicker]["60m"].found) =>
      /\ \A h \in Labels :
           (BucketBars(h) # <<>>) <=>
              (\E i \in 1..Len(HourlyAggOf) : HourlyAggOf[i].hour = h)
      /\ \A i \in 1..Len(HourlyAggOf) :
           LET a == HourlyAggOf[i]
               B == BucketBars(a.hour)
               ret == [k \in 1..Len(B) |-> Signed(Pct(B[k].close, B[k].open))]
               cum == [k \in 1..Len(B) |-> Signed(Pct(B[k].close, B[k].first_open))]
               wins == Cardinality({k \in 1..Len(B) : RLess(Zero, ret[k])})
           IN  /\ \A j \in 1..Len(HourlyAggOf) : HourlyAggOf[j].hour = a.hour => j = i
               /\ a.avg_bar_return = Round3(Mean(ret))
               /\ a.win_rate = Round3(RDiv(Num(100 * wins), Num(Len(B))))
               /\ a.avg_cum_return = Round3(Mean(cum))
               /\ a.n_days = Len(B)

\* A profile of several dates next to a trade date whose session is too short,
\* with a bucket that not every profiled date contributes to and a mean that
\* the three decimals round.
C17_Witness ==
    /\ pc = "hourly"
    /\ direction = "short"
    /\ \E d \in Range(trade_dates) : Cardinality(BarsOn(Bars60, d)) = 3
    /\ \E i, j \in 1..Len(HourlyAggOf) :
         /\ HourlyAggOf[i].n_days = 2
         /\ HourlyAggOf[j].n_days = 1
         /\ HourlyAggOf[i].win_rate = Num(50)
         /\ HourlyAggOf[i].avg_bar_return #
              Mean([k \in 1..Len(BucketBars(HourlyAggOf[i].hour)) |->
                      Signed(Pct(BucketBars(HourlyAggOf[i].hour)[k].close,
                                 BucketBars(HourlyAggOf[i].hour)[k].open))])

\* ------------------------------------------------ the dropped dates: claims
\* C18: when the decomposition skips a trade date that has no intraday bars,
\* its output carries a count of the dropped dates, and the analysed dates
\* and the dropped dates together are the distinct trade dates it was given.
C18_DroppedDatesCounted ==
    (pc = "overnight" /\ daily[TradeTicker].found /\ intraday[TradeTicker]["60m"].found
       /\ \E d \in Range(trade_dates) : BarsOn(Bars60, d) = {}) =>
      /\ "dropped" \in DOMAIN decomp
      /\ Len(DecompRowsOf) + decomp.dropped = Cardinality(Range(trade_dates))

\* ------------------------------------------------------------ a run of main
\* Number of files of a run that are absent or too short.
MaxFaults == 1

\* Number of runs of main on the same files.
MaxRuns == 2

\* The tickers main's schedule loads daily files for, and those it trades.
DailyTickers ==
    {"QQQ", "SPY", "FAS", "GLD", "USDU", "CURE", "XLP", "XLU", "XLV",
     "UVXY", "UPRO", "TQQQ"}
TradeTickers == {"UVXY", "UPRO", "FAS", "TQQQ", "CURE"}

\* The rsi10 of a complete daily file: on day 1 QQQ, SPY, FAS and GLD are
\* overbought and USDU and CURE oversold, on day 2 SPY is oversold and the
\* defensive sectors overbought.
FullRsi(t, d) ==
    CASE d = 1 /\ t \in {"QQQ", "SPY", "FAS", "GLD"} -> 90
      [] d = 1 /\ t = "USDU" -> 20
      [] d = 1 /\ t = "CURE" -> 10
      [] d = 2 /\ t = "SPY" -> 10
      [] d = 2 /\ t \in {"XLP", "XLU", "XLV"} -> 90
      [] OTHER -> 50

\* A complete daily file, and one with a single row and no RSI yet.
FullDaily(t) ==
    File(MkTable([d \in Dates |-> FullRsi(t, d)], [d \in Dates |-> 1 + (d % 2)]))
ShortDaily(t) == File(MkTable([d \in {1} |-> NaN], [d \in {1} |-> 2]))

\* Complete intraday files: a session of four bars on every date.
Full60m ==
    [found |-> TRUE,
     bars |-> UNION {MkSessionH(d, <<1000, 1100, 1200, 1300>>,
                                IF d % 2 = 0 THEN "rise" ELSE "fall") : d \in Dates}]
Full5m ==
    [found |-> TRUE,
     bars |-> UNION {MkSession5(d, <<930, 935, 1500, 1555>>,
                                IF d % 2 = 0 THEN "rise" ELSE "fall") : d \in Dates}]

\* What can be wrong with the files of a run.
FaultSpace ==
    ({"missing", "short"} \X DailyTickers) \cup ({"no60m", "no5m"} \X TradeTickers)

RunDaily(F) ==
    [t \in {x \in DailyTickers : <<"missing", x>> \notin F} |->
        IF <<"short", t>> \in F THEN ShortDaily(t) ELSE FullDaily(t)]

RunIntraday(F) ==
    [t \in TradeTickers |->
        [r \in ({"60m"} \ {x \in {"60m"} : <<"no60m", t>> \in F})
                 \cup ({"5m"} \ {x \in {"5m"} : <<"no5m", t>> \in F}) |->
            IF r = "60m" THEN Full60m ELSE Full5m]]

RunInit ==
    /\ pc = "main"
    /\ signal_name = "unknown"
    /\ signal_dates = <<>>
    /\ trade_dates = <<>>
    /\ direction = "long"
    /\ \E F \in SubsetsUpTo(FaultSpace, MaxFaults) :
         /\ daily = RunDaily(F)
         /\ intraday = RunIntraday(F)
    /\ decomp = NoResult
    /\ gaps = NoResult
    /\ entries = NoResult
    /\ hourly = NoResult
    /\ args \in {[signal |-> s] : s \in {"none", "upro_spy21", "soxs_dollar", "nosuch"}}
    /\ queue = <<>>
    /\ outcomes = <<>>
    /\ aborted = FALSE
    /\ ToolsIdle

\* main up to its loop: a process starts and works out what to analyse.
MainStart ==
    /\ pc \in {"main", "returned"}
    /\ Len(outcomes) < MaxRuns
    /\ queue' = Schedule(args)
    /\ outcomes' = Append(outcomes, <<>>)
    /\ pc' = "loop"
    /\ UNCHANGED <<signal_name, daily, intraday, signal_dates, trade_dates,
                   direction, decomp, gaps, entries, hourly, args, aborted,
                   toolVars>>

\* The call of run_full_analysis that carries the dates of the call before
\* over into its own.
RunFullAnalysis_keepsDates ==
    /\ pc = "loop"
    /\ queue # <<>>
    /\ outcomes' = [outcomes EXCEPT ![Len(outcomes)] =
                      Append(@, [run_full_analysis(Head(queue)) EXCEPT
                                   !.trade_dates = trade_dates \o @])]
    /\ trade_dates' = outcomes'[Len(outcomes)][Len(outcomes'[Len(outcomes)])].trade_dates
    /\ signal_name' = Head(queue)
    /\ queue' = Tail(queue)
    /\ UNCHANGED <<pc, daily, intraday, args, signal_dates, direction,
                   decomp, hourly, gaps, entries, aborted, toolVars>>

\* One call of run_full_analysis from main: an exception leaves main, else the
\* loop goes on with the next signal.
RunFullAnalysis ==
    /\ pc = "loop"
    /\ queue # <<>>
    /\ outcomes' = [outcomes EXCEPT ![Len(outcomes)] =
                      Append(@, run_full_analysis(Head(queue)))]
    /\ LET out == outcomes'[Len(outcomes)][Len(outcomes'[Len(outcomes)])]
       IN  /\ signal_name' = Head(queue)
           /\ signal_dates' = out.signal_dates
           /\ trade_dates' = out.trade_dates
           /\ direction' = IF Head(queue) \in DOMAIN SIGNAL_CONFIGS
                           THEN SIGNAL_CONFIGS[Head(queue)].direction ELSE direction
           /\ decomp' = out.decomp
           /\ hourly' = out.hourly
           /\ gaps' = out.gaps
           /\ entries' = out.entries
           /\ IF out.raised
              THEN aborted' = TRUE /\ pc' = "returned" /\ queue' = queue
              ELSE aborted' = aborted /\ pc' = pc /\ queue' = Tail(queue)
    /\ UNCHANGED <<daily, intraday, args, toolVars>>

\* main returns after the last signal.
MainReturn ==
    /\ pc = "loop"
    /\ queue = <<>>
    /\ pc' = "returned"
    /\ UNCHANGED <<signal_name, daily, intraday, signal_dates, trade_dates,
                   direction, decomp, gaps, entries, hourly, mainVars, toolVars>>

RunNext == MainStart \/ RunFullAnalysis \/ MainReturn

SpecRun == RunInit /\ [][RunNext]_vars

\* ------------------------------------------------------ a run of main: claims
\* The outcomes of the run of main that is under way or has just returned.
ThisRun == outcomes[Len(outcomes)]

\* A daily file the signal reads for its triggers or its calendar is absent or
\* has a single row.
DailyFault(sig) ==
    \E t \in Uses(sig) : ~Found(t) \/ Len(daily[t].df) < 2

\* A file of the ticker the signal trades is absent.
NoDailyOf(sig) == ~Found(SIGNAL_CONFIGS[sig].trade_ticker)
NoBarsOf(sig, res) == ~load_intraday(SIGNAL_CONFIGS[sig].trade_ticker, res).found

\* The outcome o of signal sig is empty or absent where its data fails and
\* complete where it does not.
OutcomeMatchesData(sig, o) ==
    /\ DailyFault(sig) => (o.trade_dates = <<>> /\ ~o.analysed)
    /\ (NoDailyOf(sig) \/ NoBarsOf(sig, "60m")) => (o.decomp.none /\ o.gaps.none)
    /\ NoBarsOf(sig, "60m") => o.hourly.none
    /\ NoBarsOf(sig, "5m") => o.entries.none
    /\ ~(DailyFault(sig) \/ NoDailyOf(sig) \/ NoBarsOf(sig, "60m") \/ NoBarsOf(sig, "5m"))
         => (o.analysed /\ ~o.decomp.none /\ ~o.hourly.none /\ ~o.gaps.none
               /\ ~o.entries.none)

\* C19: when a run over the schedule has returned, no exception has left main,
\* every signal of the schedule has its outcome, in order, and the outcome
\* of a signal is empty or absent exactly where its own data is missing or too
\* short.
C19_FailureIsolated ==
    (pc = "returned" /\ args.signal = "none") =>
      /\ ~aborted
      /\ Len(ThisRun) = Len(MainSchedule)
      /\ \A k \in 1..Len(ThisRun) :
           /\ ThisRun[k].signal = MainSchedule[k]
           /\ OutcomeMatchesData(MainSchedule[k], ThisRun[k])

C24_EveryRegisteredSignalRuns ==
    (pc = "returned" /\ args.signal = "none" /\ ~aborted) =>
      \A key \in DOMAIN SIGNAL_CONFIGS :
        Cardinality({k \in 1..Len(ThisRun) : ThisRun[k].signal = key}) = 1

\* ---------------------------------------------- the order of the trade dates
\* C29: the list of trade dates get_signal_dates returns is strictly increasing:
\* no trade date appears twice, whatever series gave the trigger dates.
C29_TradeDatesStrictlyIncreasing ==
    pc = "dates" => Ascending(trade_dates)

\* ------------------------------------------ the one-day holding period: claims
\* C30: every trade date with a decomposition row that is a date of the daily
\* table has one entry in the one-day aggregate, whose cumulative overnight
\* and intraday figures are the overnight and intraday return of its row.
C30_OneDayHoldingIsSingleDay ==
    (pc = "overnight" /\ ~decomp.none) =>
      /\ decomp.multi[1].hold_days = 1
      /\ \A i \in 1..Len(decomp.rows) :
           LET r == decomp.rows[i] IN
           (\E k \in 1..Len(DailyDf) : DailyDf[k].Date = r.date) =>
             /\ Len(SelectSeq(decomp.multi[1].cum, LAMBDA c : c.date = r.date)) = 1
             /\ \A k \in 1..Len(decomp.multi[1].cum) :
                  decomp.multi[1].cum[k].date = r.date =>
                    /\ decomp.multi[1].cum[k].on_cum = r.overnight_pct
                    /\ decomp.multi[1].cum[k].id_cum = r.intraday_pct

\* A short decomposition row with a gap, on a date of the daily table that is
\* not its first.
C30_Witness ==
    /\ pc = "overnight" /\ ~decomp.none /\ direction = "short"
    /\ \E i \in 1..Len(decomp.rows) :
         /\ decomp.rows[i].overnight_pct # Num(0)
         /\ decomp.rows[i].intraday_pct # Num(0)
         /\ \E k \in 2..Len(DailyDf) : DailyDf[k].Date = decomp.rows[i].date
         /\ \E k \in 1..Len(decomp.multi[1].cum) :
              decomp.multi[1].cum[k].date = decomp.rows[i].date

\* ------------------------------------------------ the indicators of load_daily
\* A float is a rational, NaN or an infinity; the sign of an infinity is left
\* out, as 100 - 100 / (1 + rs) is 100 for either.
FNaN == <<0, 0>>
Inf == <<1, 0>>
IsNumber(x) == x[2] # 0

\* prices.diff(): no difference at the first row.
Diff(p) == [i \in 1..Len(p) |-> IF i = 1 THEN FNaN ELSE Num(p[i] - p[i - 1])]

\* delta.where(delta > 0, 0) and -delta.where(delta < 0, 0): a comparison
\* with NaN is False, so the first row gets 0.
Gain(delta) ==
    [i \in 1..Len(delta) |->
       IF IsNumber(delta[i]) /\ RLess(Zero, delta[i]) THEN delta[i] ELSE Zero]
Loss(delta) ==
    [i \in 1..Len(delta) |->
       RNeg(IF IsNumber(delta[i]) /\ RLess(delta[i], Zero) THEN delta[i] ELSE Zero)]

\* The recursion of ewm(alpha=1/period, adjust=False).mean() at row i.
RECURSIVE Smoothed(_, _, _)
Smoothed(x, n, i) ==
    IF i = 1 THEN x[1]
    ELSE RAdd(RMul(Norm(n - 1, n), Smoothed(x, n, i - 1)), RMul(Norm(1, n), x[i]))

\* Ewm that gives a value from the first row on.
Ewm_noMinPeriods(x, n) == [i \in 1..Len(x) |-> Smoothed(x, n, i)]

\* ewm(alpha=1/period, min_periods=period, adjust=False).mean(): NaN on the
\* rows with fewer than period observations.
Ewm(x, n) == [i \in 1..Len(x) |-> IF i < n THEN FNaN ELSE Smoothed(x, n, i)]

\* Series / Series: no exception, nan for 0/0 and inf for x/0.
FDiv(a, b) ==
    IF ~IsNumber(a) \/ ~IsNumber(b) THEN FNaN
    ELSE IF b = Zero THEN (IF a = Zero THEN FNaN ELSE Inf)
    ELSE RDiv(a, b)

\* 100 - (100 / (1 + rs))
RsiOf(rs) ==
    IF rs = FNaN THEN FNaN
    ELSE IF rs = Inf THEN Num(100)
    ELSE RSub(Num(100), RDiv(Num(100), RAdd(Num(1), rs)))

\* calculate_rsi_wilder with the losses not negated.
calculate_rsi_wilder_signedLoss(p, n) ==
    LET delta == Diff(p)
        avg_gain == Ewm(Gain(delta), n)
        avg_loss == Ewm([i \in 1..Len(p) |-> RNeg(Loss(delta)[i])], n)
    IN  [i \in 1..Len(p) |-> RsiOf(FDiv(avg_gain[i], avg_loss[i]))]

calculate_rsi_wilder(p, n) ==
    LET delta == Diff(p)
        avg_gain == Ewm(Gain(delta), n)
        avg_loss == Ewm(Loss(delta), n)
    IN  [i \in 1..Len(p) |-> RsiOf(FDiv(avg_gain[i], avg_loss[i]))]

\* The slice p[a..b].
Slice(p, a, b) == [k \in 1..(b - a + 1) |-> Num(p[a + k - 1])]

\* df[col].rolling(w).mean()
Rolling(p, w) ==
    [i \in 1..Len(p) |-> IF i < w THEN FNaN ELSE Mean(Slice(p, i - w + 1, i))]

\* df["rsi10"] > th and df["rsi10"] < th on a float column.
FGt(x, th) == IsNumber(x) /\ RLess(Num(th), x)
FLt(x, th) == IsNumber(x) /\ RLess(x, Num(th))

\* ----------------------------------------------- specification: indicators
MaxBars == 5
MaxStep == 1
MaxPeriod == 3

BasePrice == MaxBars * MaxStep + 1

\* The Close columns: a first price and day-to-day changes up to MaxStep.
RECURSIVE Walks(_)
Walks(n) ==
    IF n = 0 THEN {<<>>}
    ELSE IF n = 1 THEN {<<BasePrice>>}
    ELSE {Append(w, w[n - 1] + s) : w \in Walks(n - 1), s \in (-MaxStep)..MaxStep}

CloseColumns == UNION {Walks(n) : n \in 0..MaxBars}

analyzerVars == <<pc, signal_name, daily, intraday, signal_dates, trade_dates,
                  direction, decomp, gaps, entries, hourly, mainVars>>

AnalyzerIdle ==
    /\ signal_name = "unknown"
    /\ daily = [t \in {} |-> NoFile]
    /\ intraday = [r \in {} |-> {}]
    /\ signal_dates = <<>>
    /\ trade_dates = <<>>
    /\ direction = "long"
    /\ decomp = NoResult /\ gaps = NoResult /\ entries = NoResult
    /\ hourly = NoResult
    /\ args = [signal |-> "none"]
    /\ queue = <<>> /\ outcomes = <<>> /\ aborted = FALSE

IndicatorsInit ==
    /\ pc = "csv"
    /\ AnalyzerIdle
    /\ prices \in CloseColumns
    /\ period \in 2..MaxPeriod
    /\ window \in 2..MaxPeriod
    /\ rsi_out = <<>> /\ sma_out = <<>> /\ selected = <<>>
    /\ last = <<>> /\ indicators = <<>> /\ playbook = <<>> /\ monitor = <<>>
    /\ today = 0 /\ api = {} /\ request = <<>> /\ chunks = <<>>
    /\ csv = [exists |-> FALSE, rows |-> <<>>]

\* load_daily: the indicator columns of the table.
LoadDaily ==
    /\ pc = "csv"
    /\ rsi_out' = calculate_rsi_wilder(prices, period)
    /\ sma_out' = Rolling(prices, window)
    /\ pc' = "loaded"
    /\ UNCHANGED <<signal_name, daily, intraday, signal_dates, trade_dates,
                   direction, decomp, gaps, entries, hourly, mainVars,
                   prices, period, window, selected, last, indicators,
                   playbook, monitor, today, api, request, chunks, csv>>

\* The mask of a signal function that asks for an RSI above 79.
SignalAbove ==
    /\ pc = "loaded"
    /\ selected' = [i \in 1..Len(rsi_out) |-> FGt(rsi_out[i], 79)]
    /\ pc' = "above"
    /\ UNCHANGED <<signal_name, daily, intraday, signal_dates, trade_dates,
                   direction, decomp, gaps, entries, hourly, mainVars,
                   prices, period, window, rsi_out, sma_out, last, indicators,
                   playbook, monitor, today, api, request, chunks, csv>>

\* The mask of a signal function that asks for an RSI below 21.
SignalBelow ==
    /\ pc = "loaded"
    /\ selected' = [i \in 1..Len(rsi_out) |-> FLt(rsi_out[i], 21)]
    /\ pc' = "below"
    /\ UNCHANGED <<signal_name, daily, intraday, signal_dates, trade_dates,
                   direction, decomp, gaps, entries, hourly, mainVars,
                   prices, period, window, rsi_out, sma_out, last, indicators,
                   playbook, monitor, today, api, request, chunks, csv>>

IndicatorsNext == LoadDaily \/ SignalAbove \/ SignalBelow

SpecIndicators == IndicatorsInit /\ [][IndicatorsNext]_vars

\* --------------------------------------------------------- indicators: claims
Loaded == pc \in {"loaded", "above", "below"}
Masked == pc \in {"above", "below"}

AvgGain == Ewm(Gain(Diff(prices)), period)
AvgLoss == Ewm(Loss(Diff(prices)), period)

\* C21: at every row past the warm-up where the smoothed average loss is 0,
\* the RSI is exactly 100, whatever the smoothed average gain, 0 included; it
\* is never undefined there.
C21_ZeroLossGivesHundred ==
    Loaded =>
      \A i \in period..Len(prices) :
        AvgLoss[i] = Zero => rsi_out[i] = Num(100)

StrictlyIncreasing(p) == \A i \in 2..Len(p) : p[i - 1] < p[i]
StrictlyDecreasing(p) == \A i \in 2..Len(p) : p[i - 1] > p[i]

\* C22: every defined RSI value lies in [0, 100]; on a strictly increasing
\* Close column the RSI is defined and above 90 at every row past the warm-up,
\* on a strictly decreasing one it is defined and below 10.
C22_RsiBounded ==
    Loaded =>
      /\ \A i \in 1..Len(rsi_out) :
           IsNumber(rsi_out[i]) =>
             /\ ~RLess(rsi_out[i], Zero)
             /\ ~RLess(Num(100), rsi_out[i])
      /\ StrictlyIncreasing(prices) =>
           \A i \in period..Len(prices) : FGt(rsi_out[i], 90)
      /\ StrictlyDecreasing(prices) =>
           \A i \in period..Len(prices) : FLt(rsi_out[i], 10)

\* A rising column of twice the period, and an RSI strictly between 0 and 100.
C22_Witness ==
    /\ Loaded
    /\ \/ /\ Len(prices) = 2 * period /\ StrictlyIncreasing(prices)
          /\ rsi_out[Len(prices)] = Num(100)
       \/ /\ Len(prices) = 2 * period /\ StrictlyDecreasing(prices)
          /\ rsi_out[Len(prices)] = Zero
    /\ period = 2

PyNone == <<0, -1>>
IsFloat(x) == x[2] > 0

\* The truth value of a float or None: None and 0.0 are false.
Truthy(x) == IsFloat(x) /\ x[1] # 0

\* round(x, 1) and round(x, 2) on a number.
RoundTo(x, m) ==
    LET q == (m * x[1]) \div x[2]
        r == m * x[1] - q * x[2]
        up == 2 * r > x[2] \/ (2 * r = x[2] /\ q % 2 = 1)
    IN  Norm(IF up THEN q + 1 ELSE q, m)
Round1(x) == RoundTo(x, 10)
Round2(x) == RoundTo(x, 100)

\* safe_float of the snapshot generator: None for NaN.
safe_float(value) == IF value = FNaN THEN PyNone ELSE value

\* safe_float of the monitor: 0.0 for NaN.
monitor_safe_float(value) == IF value = FNaN THEN Zero ELSE value

\* What compute_indicators returns when it returns None; raised names the
\* statement whose exception the handler caught.
NoIndicators(why) == [none |-> TRUE, raised |-> why]

\* compute_indicators on the last rows of a ticker's table.
compute_indicators(df) ==
    IF ~df.enough THEN NoIndicators("no")
    ELSE LET price == safe_float(df.Close)
             prev_close == safe_float(df.PrevClose)
             rsi10 == safe_float(df.rsi10)
             sma200 == safe_float(df.sma200)
         IN  IF Truthy(prev_close) /\ price = PyNone
             THEN NoIndicators("ret_1d")
             ELSE IF Truthy(sma200) /\ RLess(Zero, sma200) /\ price = PyNone
             THEN NoIndicators("vs_sma200")
             ELSE LET vs_sma200 ==
                          IF Truthy(sma200) /\ RLess(Zero, sma200)
                          THEN RMul(RSub(RDiv(price, sma200), Num(1)), Num(100))
                          ELSE PyNone
                  IN  [none |-> FALSE, raised |-> "no",
                       price |-> IF Truthy(price) THEN Round2(price) ELSE PyNone,
                       rsi10 |-> IF Truthy(rsi10) THEN Round1(rsi10) ELSE PyNone,
                       sma200 |-> IF Truthy(sma200) THEN Round2(sma200) ELSE PyNone,
                       vs_sma200 |-> IF vs_sma200 # PyNone THEN Round1(vs_sma200)
                                     ELSE PyNone]

\* rsi(ticker) of evaluate_signals, on the dictionary main builds: a ticker
\* whose compute_indicators returned None has no entry.
RsiEntry(ind, ticker) ==
    IF ticker \in DOMAIN ind /\ ~ind[ticker].none THEN ind[ticker].rsi10 ELSE PyNone

\* signals['playbook'] of evaluate_signals: the entries of GLD and USDU, one
\* of each comparison; the other eight entries are built the same way.
evaluate_signals(ind) ==
    LET gld_rsi == RsiEntry(ind, "GLD")
        usdu_rsi == RsiEntry(ind, "USDU")
    IN  [GLD_RSI_gt_79 |->
           [value |-> gld_rsi, threshold |-> 79,
            active |-> IF Truthy(gld_rsi) THEN RLess(Num(79), gld_rsi) ELSE FALSE],
         USDU_RSI_lt_25 |->
           [value |-> usdu_rsi, threshold |-> 25,
            active |-> IF Truthy(usdu_rsi) THEN RLess(usdu_rsi, Num(25)) ELSE FALSE]]

\* The indicator loop of check_signals with no test of sma200.
check_signals_unguarded(df) ==
    LET price == monitor_safe_float(df.Close)
        sma200 == monitor_safe_float(df.sma200)
    IN  [price |-> price, rsi10 |-> monitor_safe_float(df.rsi10), sma200 |-> sma200,
         pct_above_sma200 |-> RMul(RSub(RDiv(price, sma200), Num(1)), Num(100))]

\* The entry the indicator loop of check_signals makes for one ticker.
check_signals(df) ==
    LET price == monitor_safe_float(df.Close)
        sma200 == monitor_safe_float(df.sma200)
    IN  [price |-> price, rsi10 |-> monitor_safe_float(df.rsi10), sma200 |-> sma200,
         pct_above_sma200 |->
           IF RLess(Zero, sma200)
           THEN RMul(RSub(RDiv(price, sma200), Num(1)), Num(100))
           ELSE Zero]

\* ------------------------------------------------- specification: snapshot
SnapshotTickers == {"GLD", "USDU"}

\* The RSI values of the last row, in hundredths: the ends of the range, a
\* value that rounds to 0.0, values on both sides of a threshold.
RsiValues == {FNaN} \cup {Norm(k, 100) : k \in {0, 4, 2496, 7904, 7906, 10000}}
CloseValues == {FNaN, Zero, Num(1), Num(3)}
SmaValues == {FNaN, Zero, Num(2)}

\* The last rows of a table: fewer than 200 rows, or the last values of its
\* columns; the moving average of a window that holds a NaN is NaN.
LastRows ==
    {[enough |-> FALSE, Close |-> Num(1), PrevClose |-> Num(1),
      rsi10 |-> FNaN, sma200 |-> FNaN]}
    \cup {r \in [enough : {TRUE}, Close : CloseValues, PrevClose : {FNaN, Num(1)},
                 rsi10 : RsiValues, sma200 : SmaValues] :
            (r.Close = FNaN \/ r.PrevClose = FNaN) => r.sma200 = FNaN}

SnapshotInit ==
    /\ pc = "data"
    /\ AnalyzerIdle
    /\ last \in [SnapshotTickers -> LastRows]
    /\ indicators = <<>> /\ playbook = <<>> /\ monitor = <<>>
    /\ prices = <<>> /\ period = 0 /\ window = 0
    /\ rsi_out = <<>> /\ sma_out = <<>> /\ selected = <<>>
    /\ today = 0 /\ api = {} /\ request = <<>> /\ chunks = <<>>
    /\ csv = [exists |-> FALSE, rows |-> <<>>]

\* main of the snapshot generator: compute_indicators for every ticker.
ComputeIndicators ==
    /\ pc = "data"
    /\ indicators' = [t \in {x \in SnapshotTickers : ~compute_indicators(last[x]).none}
                        |-> compute_indicators(last[t])]
    /\ pc' = "computed"
    /\ UNCHANGED <<signal_name, daily, intraday, signal_dates, trade_dates,
                   direction, decomp, gaps, entries, hourly, mainVars,
                   prices, period, window, rsi_out, sma_out, selected, last,
                   playbook, monitor, today, api, request, chunks, csv>>

\* main of the snapshot generator: evaluate_signals(indicators).
EvaluateSignals ==
    /\ pc = "computed"
    /\ playbook' = evaluate_signals(indicators)
    /\ pc' = "evaluated"
    /\ UNCHANGED <<signal_name, daily, intraday, signal_dates, trade_dates,
                   direction, decomp, gaps, entries, hourly, mainVars,
                   prices, period, window, rsi_out, sma_out, selected, last,
                   indicators, monitor, today, api, request, chunks, csv>>

\* The indicator loop of check_signals of the monitor, on the same data.
CheckSignals ==
    /\ pc = "data"
    /\ monitor' = [t \in {x \in SnapshotTickers : last[x].enough}
                     |-> check_signals(last[t])]
    /\ pc' = "checked"
    /\ UNCHANGED <<signal_name, daily, intraday, signal_dates, trade_dates,
                   direction, decomp, gaps, entries, hourly, mainVars,
                   prices, period, window, rsi_out, sma_out, selected, last,
                   indicators, playbook, today, api, request, chunks, csv>>

SnapshotNext == ComputeIndicators \/ EvaluateSignals \/ CheckSignals

SpecSnapshot == SnapshotInit /\ [][SnapshotNext]_vars

\* ----------------------------------------------------------- snapshot: claims
\* The RSI computed for a ticker: the last value of its rsi10 column, NaN when
\* the table is too short for any indicator.
ComputedRsi(t) == IF last[t].enough THEN last[t].rsi10 ELSE FNaN

\* C25: a playbook entry is active exactly when the computed RSI of its ticker
\* is defined and on the entry's side of the threshold, and its value is
\* absent only when the computed RSI is undefined.
C25_ActiveIffConditionHolds ==
    pc = "evaluated" =>
      /\ playbook.GLD_RSI_gt_79.active
           = (IsFloat(ComputedRsi("GLD")) /\ RLess(Num(79), ComputedRsi("GLD")))
      /\ playbook.USDU_RSI_lt_25.active
           = (IsFloat(ComputedRsi("USDU")) /\ RLess(ComputedRsi("USDU"), Num(25)))
      /\ playbook.GLD_RSI_gt_79.value = PyNone => ~IsFloat(ComputedRsi("GLD"))
      /\ playbook.USDU_RSI_lt_25.value = PyNone => ~IsFloat(ComputedRsi("USDU"))

\* (price / sma200 - 1) * 100
PctAbove(t) ==
    RMul(RSub(RDiv(monitor_safe_float(last[t].Close), last[t].sma200), Num(1)),
         Num(100))

\* C26: the percentage above the moving average is (price / sma200 - 1) * 100
\* (to one decimal in the snapshot) when the moving average is defined and
\* above 0; when it is 0 or undefined the monitor reports 0 and the snapshot
\* reports no value, and the computation raises nothing.
C26_PercentAboveIsGuarded ==
    /\ pc = "checked" =>
         \A t \in DOMAIN monitor :
           monitor[t].pct_above_sma200 =
             IF IsFloat(last[t].sma200) /\ RLess(Zero, last[t].sma200)
             THEN PctAbove(t) ELSE Zero
    /\ pc = "computed" =>
         /\ \A t \in SnapshotTickers :
              compute_indicators(last[t]).raised # "vs_sma200"
         /\ \A t \in DOMAIN indicators :
              indicators[t].vs_sma200 =
                IF IsFloat(last[t].sma200) /\ RLess(Zero, last[t].sma200)
                THEN Round1(PctAbove(t)) ELSE PyNone

\* The monitor has met a moving average of 0, one that is undefined and one
\* above 0 with a price away from it.
C26_Witness ==
    /\ pc = "checked"
    /\ DOMAIN monitor = SnapshotTickers
    /\ last["GLD"].sma200 \in {Zero, FNaN}
    /\ monitor["GLD"].pct_above_sma200 = Zero
    /\ last["USDU"].sma200 = Num(2)
    /\ monitor["USDU"].pct_above_sma200 = Num(50)

\* ------------------------------------------------------------ the downloader
\* src/.github/workflows/polygon_downloader.py.  A date is a day number; a bar
\* is a row [timestamp, date, time, close]; the file of a ticker and a
\* resolution is a list of bars, or does not exist.
CHUNK_DAYS == [r \in {"60m", "5m", "1m"} |->
                 IF r = "60m" THEN 365 ELSE IF r = "5m" THEN 30 ELSE 7]

Min(a, b) == IF a < b THEN a ELSE b

\* The while loop of download_bars: the chunk requests it makes, in order.
RECURSIVE ChunkLoop(_, _, _)
ChunkLoop(current_start, end, chunk_days) ==
    IF current_start < end
    THEN LET current_end == Min(current_start + chunk_days, end)
         IN  <<[from |-> current_start, to |-> current_end]>>
             \o ChunkLoop(current_end + 1, end, chunk_days)
    ELSE <<>>

\* list_aggs(from_, to, sort="asc"): the bars of the service in the range.
RECURSIVE SortByTimestamp(_)
SortByTimestamp(seq) ==
    IF seq = <<>> THEN <<>>
    ELSE LET i == CHOOSE k \in 1..Len(seq) :
                    \A j \in 1..Len(seq) :
                      seq[k].timestamp < seq[j].timestamp
                        \/ (seq[k].timestamp = seq[j].timestamp /\ k <= j)
         IN  <<seq[i]>>
             \o SortByTimestamp([k \in 1..(Len(seq) - 1) |->
                                   IF k < i THEN seq[k] ELSE seq[k + 1]])

RECURSIVE SetToSeq(_)
SetToSeq(S) ==
    IF S = {} THEN <<>>
    ELSE LET x == CHOOSE y \in S : TRUE IN <<x>> \o SetToSeq(S \ {x})

list_aggs(market, from, to) ==
    SortByTimestamp(SetToSeq({b \in market : from <= b.date /\ b.date <= to}))

\* drop_duplicates(subset=["timestamp"]), keep="first" or keep="last".
DropDuplicatesFirst(seq) ==
    LET keep == {k \in 1..Len(seq) :
                   \A j \in 1..(k - 1) : seq[j].timestamp # seq[k].timestamp}
    IN  [n \in 1..Cardinality(keep) |->
           seq[CHOOSE k \in keep : Cardinality({j \in keep : j <= k}) = n]]

DropDuplicatesLast(seq) ==
    LET keep == {k \in 1..Len(seq) :
                   \A j \in (k + 1)..Len(seq) : seq[j].timestamp # seq[k].timestamp}
    IN  [n \in 1..Cardinality(keep) |->
           seq[CHOOSE k \in keep : Cardinality({j \in keep : j <= k}) = n]]

\* The bars the chunk requests bring, those of a request that raises left out.
RECURSIVE AllBars(_, _, _, _)
AllBars(market, reqs, fails, k) ==
    IF k > Len(reqs) THEN <<>>
    ELSE (IF k \in fails THEN <<>> ELSE list_aggs(market, reqs[k].from, reqs[k].to))
         \o AllBars(market, reqs, fails, k + 1)

\* download_bars: fails are the chunk requests that raise.
download_bars(market, resolution, start, end, fails) ==
    LET reqs == ChunkLoop(start, end, CHUNK_DAYS[resolution])
        all_bars == AllBars(market, reqs, fails, 1)
    IN  [request |-> [start |-> start, end |-> end],
         chunks |-> [k \in 1..Len(reqs) |->
                       [from |-> reqs[k].from, to |-> reqs[k].to,
                        raised |-> k \in fails]],
         df |-> DropDuplicatesFirst(SortByTimestamp(all_bars))]

\* (df["time"] >= "09:30") & (df["time"] < "16:00")
RegularHours(df) == SelectSeq(df, LAMBDA b : b.time >= 930 /\ b.time < 1600)

\* TICKER_CONFIG[ticker]["start"] of the ticker of the model.
StartDate == 0

NoDownload == [request |-> <<>>, chunks |-> <<>>, df |-> <<>>]

\* backfill_ticker of an equity: the file after the call and the download made.
backfill_ticker(file, now, market, resolution, force, fails) ==
    IF file.exists /\ ~force THEN [csv |-> file, dl |-> NoDownload]
    ELSE LET dl == download_bars(market, resolution, StartDate, now, fails)
         IN  IF dl.df = <<>> THEN [csv |-> file, dl |-> dl]
             ELSE [csv |-> [exists |-> TRUE, rows |-> RegularHours(dl.df)],
                   dl |-> dl]

MaxOf(S) == CHOOSE x \in S : \A y \in S : y <= x

\* update_ticker with the rows concatenated and not deduplicated.
update_ticker_noDedupe(file, now, market, resolution, fails) ==
    IF ~file.exists
    THEN backfill_ticker(file, now, market, resolution, FALSE, fails)
    ELSE IF file.rows = <<>>
    THEN backfill_ticker(file, now, market, resolution, TRUE, fails)
    ELSE LET existing == file.rows
             last_date == MaxOf({existing[k].date : k \in 1..Len(existing)})
             start_date == last_date - 2
         IN  IF start_date >= now THEN [csv |-> file, dl |-> NoDownload]
             ELSE LET dl == download_bars(market, resolution, start_date, now, fails)
                  IN  IF dl.df = <<>> THEN [csv |-> file, dl |-> dl]
                      ELSE [csv |-> [exists |-> TRUE,
                                     rows |-> SortByTimestamp(
                                                existing \o RegularHours(dl.df))],
                            dl |-> dl]

\* update_ticker of an equity: the file after the call and the download made.
update_ticker(file, now, market, resolution, fails) ==
    IF ~file.exists
    THEN backfill_ticker(file, now, market, resolution, FALSE, fails)
    ELSE IF file.rows = <<>>
    THEN backfill_ticker(file, now, market, resolution, TRUE, fails)
    ELSE LET existing == file.rows
             last_date == MaxOf({existing[k].date : k \in 1..Len(existing)})
             start_date == last_date - 2
         IN  IF start_date >= now THEN [csv |-> file, dl |-> NoDownload]
             ELSE LET dl == download_bars(market, resolution, start_date, now, fails)
                  IN  IF dl.df = <<>> THEN [csv |-> file, dl |-> dl]
                      ELSE [csv |-> [exists |-> TRUE,
                                     rows |-> SortByTimestamp(DropDuplicatesLast(
                                                existing \o RegularHours(dl.df)))],
                            dl |-> dl]

\* ----------------------------------------------- specification: downloader
MaxDay == 9

\* The resolution of the run (--resolution 1m).
Resolution == "1m"

\* The bars the service has for a day: one before the open and one in regular
\* hours; version is the close it gives.
BarsOfDay(d, version) ==
    {[timestamp |-> d * 10000 + t, date |-> d, time |-> t, close |-> version]
       : t \in {900, 1000}}

\* The bars the service has on a day: those of the day itself are provisional
\* (close 1), those of the days before are final (close 2).
Market(now) ==
    UNION {BarsOfDay(d, IF d = now THEN 1 ELSE 2) : d \in 0..now}

\* The chunk requests that may raise: any of those the call would make.
MayFail == SUBSET (1..2)

DownloaderInit ==
    /\ pc = "shell"
    /\ AnalyzerIdle
    /\ today \in 0..1
    /\ api = Market(today)
    /\ request = [op |-> "none", before |-> <<>>, dl |-> <<>>]
    /\ chunks = <<>>
    /\ csv = [exists |-> FALSE, rows |-> <<>>]
    /\ prices = <<>> /\ period = 0 /\ window = 0
    /\ rsi_out = <<>> /\ sma_out = <<>> /\ selected = <<>>
    /\ last = <<>> /\ indicators = <<>> /\ playbook = <<>> /\ monitor = <<>>

downloaderRest == <<signal_name, daily, intraday, signal_dates, trade_dates,
                    direction, decomp, gaps, entries, hourly, mainVars,
                    prices, period, window, rsi_out, sma_out, selected, last,
                    indicators, playbook, monitor>>

\* polygon_downloader.py --backfill [--force] for the ticker.
BackfillTicker ==
    /\ pc = "shell"
    /\ \E force \in BOOLEAN, fails \in MayFail :
         /\ csv' = backfill_ticker(csv, today, api, Resolution, force, fails).csv
         /\ chunks' = backfill_ticker(csv, today, api, Resolution, force, fails).dl.chunks
         /\ request' = [op |-> "backfill", before |-> csv.rows,
                        dl |-> backfill_ticker(csv, today, api, Resolution,
                                               force, fails).dl.request]
    /\ UNCHANGED <<pc, today, api>>
    /\ UNCHANGED downloaderRest

\* polygon_downloader.py --update for the ticker.
UpdateTicker ==
    /\ pc = "shell"
    /\ \E fails \in MayFail :
         /\ csv' = update_ticker(csv, today, api, Resolution, fails).csv
         /\ chunks' = update_ticker(csv, today, api, Resolution, fails).dl.chunks
         /\ request' = [op |-> "update", before |-> csv.rows,
                        dl |-> update_ticker(csv, today, api, Resolution,
                                             fails).dl.request]
    /\ UNCHANGED <<pc, today, api>>
    /\ UNCHANGED downloaderRest

\* A day passes: the service has the bars of the new day.
NextDay ==
    /\ pc = "shell"
    /\ today < MaxDay
    /\ today' = today + 1
    /\ api' = Market(today + 1)
    /\ UNCHANGED <<pc, request, chunks, csv>>
    /\ UNCHANGED downloaderRest

DownloaderNext == BackfillTicker \/ UpdateTicker \/ NextDay

SpecDownloader == DownloaderInit /\ [][DownloaderNext]_vars

\* --------------------------------------------------------- downloader: claims
\* C27: the chunk requests of a download_bars call with start <= end cover
\* every date from start through end, whether or not a request raises.
C27_ChunksCoverRange ==
    (request.dl # <<>> /\ request.dl.start <= request.dl.end) =>
      \A d \in request.dl.start..request.dl.end :
        \E k \in 1..Len(chunks) : chunks[k].from <= d /\ d <= chunks[k].to

Timestamps(rows) == {rows[k].timestamp : k \in 1..Len(rows)}

SortedUnique(rows) ==
    \A i, j \in 1..Len(rows) : i < j => rows[i].timestamp < rows[j].timestamp

\* C28: whatever backfill_ticker and update_ticker calls are made, the stored
\* table never holds two bars with one timestamp and is in ascending order of
\* timestamp; update_ticker leaves every timestamp that was stored in the
\* table, and stores a bar it downloaded in regular hours as downloaded.
C28_StoreSortedUniqueGrowing ==
    [][/\ SortedUnique(csv'.rows)
       /\ UpdateTicker =>
            /\ Timestamps(csv.rows) \subseteq Timestamps(csv'.rows)
            /\ \A k \in 1..Len(chunks') :
                 ~chunks'[k].raised =>
                   \A b \in api :
                     (/\ chunks'[k].from <= b.date /\ b.date <= chunks'[k].to
                      /\ b.time = 1000)
                       => \E i \in 1..Len(csv'.rows) : csv'.rows[i] = b]_vars

\* An update has replaced a provisional bar it had stored by the final one
\* and has added a bar.
C28_Witness ==
    /\ request.op = "update" /\ request.dl # <<>>
    /\ Len(csv.rows) > Len(request.before)
    /\ \E i \in 1..Len(request.before), j \in 1..Len(csv.rows) :
         /\ request.before[i].timestamp = csv.rows[j].timestamp
         /\ request.before[i].close = 1
         /\ csv.rows[j].close = 2
====
